---------------------------- MODULE Spec2Model ----------------------------
(***************************************************************************)
(* A model of the tool-orchestration code of music-mcp:                    *)
(*   - the chat handler of web/api/chat.ts (streaming and non-streaming    *)
(*     tool loop, callDistroApi),                                          *)
(*   - the tool dispatchers of src/index.ts and dist/client.js,            *)
(*   - SunoClient.waitForCompletion of src/suno-client.ts,                 *)
(*   - the requests of the backend adapters, POST /api/generate and the    *)
(*     one-shot release workflow with its identity step,                   *)
(*   - DittoClient.authenticate with its token cache,                      *)
(*   - the status route with audioCache, the event stream of the chat      *)
(*     handler, the rate limits of the HTTP API and the set_splits tool,   *)
(*   - the release_ai_track tool, overlapping calls of DittoClient.request,*)
(*     the artist wallet store and POST /api/upload-track.                 *)
(* Each component has its own specification over the shared variables; the *)
(* variables of the other components stay at their initial values.         *)
(***************************************************************************)
EXTENDS Integers, Sequences, FiniteSets, TLC

VARIABLES
    \* ---- POST /api/upload-track of the HTTP server ----
    u_pc,               \* position of the handler
    u_body,             \* req.body
    u_cache,            \* audioCache in insertion order
    u_buffer,           \* audioBuffer: where the bytes came from
    u_uploaded,         \* what went to createTrackWithAudioBuffer
    u_answer,           \* HTTP status of the answer, 0 before it
    \* ---- the artist wallet store (src/ditto-client.ts) ----
    k_pc,               \* per call of getOrCreateArtistWallet: its position
    k_name,             \* per call: artistName
    k_wallets,          \* per call: const wallets = loadWallets()
    k_result,           \* per call: the address returned, 0 for null
    k_file,             \* WALLET_FILE: key -> address, 0 for no mapping
    k_privy,            \* getPrivyClient() returns a client
    k_created,          \* number of wallets the wallet API has created
    \* ---- overlapping calls of DittoClient.request (src/ditto-client.ts) ----
    n_pc,               \* per call: where it is in authenticate / request
    n_held,             \* per call: the token authenticate returned to it
    n_cold,             \* the calls that found no valid token at their start
    n_auth,             \* this.auth of the one client
    n_issued,           \* number of tokens the backend has issued
    \* ---- runs of the release_ai_track tool (src/index.ts) ----
    r_run,              \* per run: position, options, ids held, calls, result
    r_artists,          \* the artists of the distribution backend
    r_stores,           \* the stores the backend lists
    r_storeMapping,     \* let storeMapping: loaded or not
    r_nextId,           \* the next id a backend issues
    \* ---- the set_splits tool (src/index.ts, mocks/mock-data.ts) ----
    p_pc,               \* called, or answered
    p_live,             \* dittoClient is configured
    p_splits,           \* the splits argument of the call
    p_sent,             \* the list put to the backend, if any
    p_result,           \* what the tool answered
    \* ---- rate limits of the HTTP API (compiled server, src/server.ts) ----
    l_server,           \* which copy of the server answers
    l_now,              \* the clock, in half days
    l_usage,            \* usageTrackers / memoryRateLimits: per user and type
    l_admitted,         \* requests admitted in the current calendar day
    l_last,             \* the latest request and its answer
    l_requests,         \* the requests made so far
    \* ---- the event stream of the streaming chat handler (web/api/chat.ts) ----
    e_pc,               \* position of the streaming handler
    e_hasMessages,      \* the body carries a messages array
    e_log,              \* the events written, the tool calls started, res.end
    e_response,         \* the latest engine response
    e_round,            \* tool rounds begun so far
    e_next,             \* the tool_use block the for loop is at
    \* ---- GET /api/generate/status/:taskId with audioCache (compiled server) ----
    c_cache,            \* const audioCache: the entries in insertion order
    c_clock,            \* Date.now()
    c_req,              \* the status requests being handled, one per slot
    c_insert,           \* the latest insert: the cache after set, after cleaning
    c_polls,            \* getGenerationDetails calls issued so far
    \* ---- DittoClient.authenticate with its token cache (src/ditto-client.ts) ----
    a_pc,               \* between calls, or blocked in a fetch that never ends
    a_now,              \* Date.now(), in minutes
    a_auth,             \* private auth: the cached token, or none
    a_issued,           \* the tokens the backend has issued so far
    a_exchangedAt,      \* when the latest successful exchange finished, -1: never
    a_done,             \* the calls of authenticate so far
    a_call,             \* the latest call: what it found, fetched and returned
    \* ---- identity resolution of the one-shot release workflow ----
    i_flow,             \* which workflow resolves the identity
    i_artists,          \* the artists the backend holds, in the order listed
    i_shape,            \* the shape of the answer of GET /api/me/artists
    i_runs,             \* the runs of the workflow so far, one record each
    i_created,          \* the POST /api/me/artists calls issued so far
    \* ---- chat handler (web/api/chat.ts) ----
    chat_pc,            \* position of the handler
    req,                \* the HTTP request: method, wantsStream, messages
    anthropicMessages,  \* const anthropicMessages (chat.ts:396, 492)
    response,           \* let response (chat.ts:403, 497)
    toolResults,        \* const toolResults (chat.ts:425, 514)
    generationTaskId,   \* let generationTaskId (chat.ts:506)
    sent,               \* the `messages` argument of the latest engine call
    outcome,            \* what the handler answered
    rounds,             \* number of completed tool rounds (saturates at MaxRounds)
    engineCalls,        \* number of engine calls made (saturates at MaxRounds + 1)
    threwLog,           \* per tool call of the current round: did callDistroApi throw
    toolFailed,         \* some tool call of this request threw
    engineFailed,       \* an engine call of this request threw
    lastStarted,        \* task id returned by the latest successful generate_music
    \* ---- tool dispatchers (index.ts, client.js, chat.ts) ----
    d_pc, d_call, d_result,
    \* ---- SunoClient.waitForCompletion (suno-client.ts) ----
    w_pc,               \* position of waitForCompletion
    now,                \* Date.now(), in seconds
    startTime,          \* const startTime (suno-client.ts:190)
    pollCount,          \* let pollCount (suno-client.ts:191)
    consecutiveErrors,  \* let consecutiveErrors (suno-client.ts:192)
    details,            \* const details of the current iteration (suno-client.ts:201)
    failureSeen,        \* a poll has reported a status of the failure set
    onlyNetErrors,      \* every error counted in consecutiveErrors is a failed request
    scenario,           \* progress of the polls along PENDING, PENDING, SUCCESS
    slept,              \* seconds spent so far in the waits between polls
    edition,            \* which copy of SunoClient runs: suno-client.ts or the earlier one
    \* ---- one request of a backend adapter (suno-client.ts, ditto-client.ts, chat.ts) ----
    q_pc,               \* position of the request
    q_client,           \* whose request it is: SunoClient, DittoClient, callDistroApi
    q_auth,             \* this.auth of the DittoClient when the request starts
    attempt,            \* let attempt of SunoClient.request (suno-client.ts:55)
    q_sent,             \* fetches of the request itself sent so far
    q_authSent,         \* fetches of the authentication exchange sent so far
    q_waits,            \* the waits made between attempts, in seconds
    q_last,             \* how the latest fetch of the request ended
    q_elapsed,          \* seconds the request has taken so far
    \* ---- starting a generation: generate_music -> POST /api/generate ----
    g_pc,               \* position of the call
    g_server,           \* which copy of the HTTP server answers
    g_body,             \* the body of the POST: hasPrompt, wait
    g_submissions,      \* calls of sunoClient.generateMusic made
    g_polls,            \* status polls made by the server for this call
    g_answer,           \* the HTTP answer of the server
    g_result,           \* what callDistroApi returned or threw
    \* ---- one-shot release workflow: release_ai_track, POST /api/release-full ----
    f_pc,               \* the step the workflow is at
    f_flow,             \* which workflow runs
    f_opts,             \* artwork asked for / available, DSPs given
    f_calls,            \* the steps whose backend calls were issued, in order
    f_failed,           \* the steps that failed
    f_logged,           \* the failures written to the log only
    f_result            \* the result: answered, success, failures noted in it

chatVars == <<chat_pc, req, anthropicMessages, response, toolResults,
              generationTaskId, sent, outcome, rounds, engineCalls, threwLog,
              toolFailed, engineFailed, lastStarted>>
dispatchVars == <<d_pc, d_call, d_result>>
waitVars == <<w_pc, now, startTime, pollCount, consecutiveErrors, details,
              failureSeen, onlyNetErrors, scenario, slept, edition>>
requestVars == <<q_pc, q_client, q_auth, attempt, q_sent, q_authSent, q_waits, q_last,
                 q_elapsed>>
generateVars == <<g_pc, g_server, g_body, g_submissions, g_polls, g_answer, g_result>>
workflowVars == <<f_pc, f_flow, f_opts, f_calls, f_failed, f_logged, f_result>>
identityVars == <<i_flow, i_artists, i_shape, i_runs, i_created>>
authVars == <<a_pc, a_now, a_auth, a_issued, a_exchangedAt, a_done, a_call>>
cacheVars == <<c_cache, c_clock, c_req, c_insert, c_polls>>
streamVars == <<e_pc, e_hasMessages, e_log, e_response, e_round, e_next>>
limitVars == <<l_server, l_now, l_usage, l_admitted, l_last, l_requests>>
splitsVars == <<p_pc, p_live, p_splits, p_sent, p_result>>
runVars == <<r_run, r_artists, r_stores, r_storeMapping, r_nextId>>
sessionVars == <<n_pc, n_held, n_cold, n_auth, n_issued>>
walletVars == <<k_pc, k_name, k_wallets, k_result, k_file, k_privy, k_created>>
uploadVars == <<u_pc, u_body, u_cache, u_buffer, u_uploaded, u_answer>>
vars == <<chatVars, dispatchVars, waitVars, requestVars, generateVars,
          workflowVars, identityVars, authVars, cacheVars, streamVars,
          limitVars, splitsVars, runVars, sessionVars, walletVars,
          uploadVars>>

-----------------------------------------------------------------------------
(* Bounds of the model *)

\* tool round-trips that are counted exactly; the counters saturate there
MaxRounds == 3
\* tool_use blocks in one engine response
MaxToolUses == 2

Min(a, b) == IF a < b THEN a ELSE b

-----------------------------------------------------------------------------
(* Tool inputs.  An input is the raw argument object of a tool invocation, *)
(* reduced to the two properties the modelled tools read: p1 and p2 are    *)
(* the first and second property of the tool's schema.                     *)

NULL == "null"

\* kinds of JSON value a property can hold
ValueKinds == {"absent", "string", "number", "dspsCommon", "dspsServerOnly", "dspsUnknown"}

Inputs == [p1 : ValueKinds, p2 : ValueKinds]

TaskIds == {"task_A", "task_B"}

\* outcomes of one fetch against the Distro API
BackendOutcomes ==
    {[kind |-> "ok", taskId |-> t] : t \in TaskIds \cup {NULL}}
    \cup {[kind |-> "http_error", taskId |-> NULL],
          [kind |-> "network_error", taskId |-> NULL]}

\* the switch of callDistroApi: the tool names that have a case
ChatToolNames == {"create_artist", "get_artists", "create_release",
                  "get_release_status", "get_releases", "generate_music",
                  "upload_track", "upload_artwork", "submit_release",
                  "complete_release", "set_wallet", "get_wallet"}

\* callDistroApi(toolName, input): the switch on the name throws for an
\* unknown tool before any fetch; every other name leads to one fetch with
\* the raw input, which throws when the response is not ok.
callDistroApi(toolName, input, backend) ==
    IF toolName \notin ChatToolNames
    THEN [fetched |-> FALSE, threw |-> TRUE, error |-> "Unknown tool", taskId |-> NULL]
    ELSE IF backend.kind = "ok"
    THEN [fetched |-> TRUE, threw |-> FALSE, error |-> NULL,
          taskId |-> IF toolName = "generate_music" THEN backend.taskId ELSE NULL]
    ELSE [fetched |-> TRUE, threw |-> TRUE, error |-> backend.kind, taskId |-> NULL]

-----------------------------------------------------------------------------
(* The chat handler *)

Texts == {"t1", "t2"}

\* tool names the engine asks for in the model: two registered tools and
\* one that is not in the registry
EngineToolNames == {"create_artist", "generate_music", "no_such_tool"}
EngineInput == [p1 |-> "string", p2 |-> "absent"]

TextBlocks == [type : {"text"}, text : Texts]

\* the ids of the n tool_use blocks of one response: distinct, in ascending
\* or in descending order
IdOrders(n) == {[i \in 1..n |-> i], [i \in 1..n |-> n + 1 - i]}

\* the tool_use blocks of one response: 1..MaxToolUses invocations
ToolUseTurns ==
    UNION {{[i \in 1..n |-> [type |-> "tool_use", id |-> ids[i], name |-> names[i],
                             input |-> EngineInput]] :
              names \in [1..n -> EngineToolNames], ids \in IdOrders(n)} :
           n \in 1..MaxToolUses}

\* the responses of the reasoning engine: a final answer (text only), or
\* one or more tool_use blocks, optionally preceded by a text block
EngineResponses ==
    {[stop_reason |-> "end_turn", content |-> <<b>>] : b \in TextBlocks}
    \cup {[stop_reason |-> "tool_use", content |-> pre \o tu] :
            pre \in {<<>>, <<[type |-> "text", text |-> "t1"]>>},
            tu \in ToolUseTurns}

IsToolUse(block) == block.type = "tool_use"
IsText(block) == block.type = "text"

\* response.content.filter(block => block.type === 'tool_use')
toolUseBlocks(resp) == SelectSeq(resp.content, IsToolUse)

\* textBlocks.map(b => b.text).join('\n'): the texts in order
responseText(resp) ==
    LET tb == SelectSeq(resp.content, IsText)
    IN [i \in 1..Len(tb) |-> tb[i].text]

\* the request bodies: no messages array, or an array of message objects
\* A conversation turn is named by reference: the caller's i-th message is
\* [round |-> 0, idx |-> i]; the assistant turn {role: 'assistant', content:
\* response.content} of tool round k is [role |-> "assistant", round |-> k]
\* and the turn {role: 'user', content: toolResults} of that round is
\* [role |-> "user", round |-> k], both with idx 0.
MessageArrays ==
    {<<[role |-> "user", round |-> 0, idx |-> 1]>>,
     <<[role |-> "user", round |-> 0, idx |-> 1],
       [role |-> "assistant", round |-> 0, idx |-> 2],
       [role |-> "user", round |-> 0, idx |-> 3]>>}
Requests ==
    [method : {"POST", "GET", "OPTIONS"}, wantsStream : BOOLEAN,
     hasMessagesArray : BOOLEAN, messages : MessageArrays]

NoResponse == [stop_reason |-> NULL, content |-> <<>>]

\* what the handler answered: an HTTP status with a JSON body, or the
\* terminal event of the event stream
Outcome(kind, status, text, taskId) ==
    [kind |-> kind, status |-> status, response |-> text, taskId |-> taskId]
NoOutcome == Outcome("none", 0, <<>>, NULL)

ChatInit ==
    /\ chat_pc = "start"
    /\ req \in Requests
    /\ anthropicMessages = <<>>
    /\ response = NoResponse
    /\ toolResults = <<>>
    /\ generationTaskId = NULL
    /\ sent = <<>>
    /\ outcome = NoOutcome
    /\ rounds = 0
    /\ engineCalls = 0
    /\ threwLog = <<>>
    /\ toolFailed = FALSE
    /\ engineFailed = FALSE
    /\ lastStarted = NULL

\* while (response.stop_reason === 'tool_use')
loopContinues(resp) == resp.stop_reason = "tool_use"

\* the messages of the follow-up engine call of tool round k:
\* [...anthropicMessages, {role: 'assistant', content: response.content},
\*  {role: 'user', content: toolResults}]
nextMessages(base, k) ==
    base \o <<[role |-> "assistant", round |-> k, idx |-> 0],
              [role |-> "user", round |-> k, idx |-> 0]>>

\* mutant of pushResult: the result is put in front of the earlier ones
pushResultFront(results, toolUse, r) ==
    <<[type |-> "tool_result", tool_use_id |-> toolUse.id,
       content |-> [error |-> r.error, taskId |-> r.taskId],
       is_error |-> r.threw]>> \o results

\* mutant of pushResult: the catch branch forgets is_error
pushResultUnmarked(results, toolUse, r) ==
    Append(results,
           [type |-> "tool_result", tool_use_id |-> toolUse.id,
            content |-> [error |-> r.error, taskId |-> r.taskId],
            is_error |-> FALSE])

\* toolResults.push({type: 'tool_result', tool_use_id: toolUse.id, ...}):
\* the result of callDistroApi, or the error with is_error: true
pushResult(results, toolUse, r) ==
    Append(results,
           [type |-> "tool_result", tool_use_id |-> toolUse.id,
            content |-> [error |-> r.error, taskId |-> r.taskId],
            is_error |-> r.threw])

\* if (toolUse.name === 'generate_music' && result.taskId) generationTaskId = ...
\* (non-streaming loop only)
captureTaskId(current, wantsStream, toolUse, r) ==
    IF ~wantsStream /\ ~r.threw /\ toolUse.name = "generate_music" /\ r.taskId # NULL
    THEN r.taskId
    ELSE current

\* mutant of finalText: the marker `[taskId: ...]` is never appended
finalTextUnmarked(resp, wantsStream, taskId) == responseText(resp)

\* the text of the final answer: the joined text blocks and, in the
\* non-streaming handler, the marker `[taskId: ...]` when a generation started
finalText(resp, wantsStream, taskId) ==
    IF ~wantsStream /\ taskId # NULL
    THEN responseText(resp) \o <<"[taskId:", taskId>>
    ELSE responseText(resp)

\* the final answer: the 'done' event, or HTTP 200 with the text and taskId
finalOutcome(resp, wantsStream, taskId) ==
    IF wantsStream
    THEN Outcome("sse_done", 0, finalText(resp, wantsStream, taskId), NULL)
    ELSE Outcome("http", 200, finalText(resp, wantsStream, taskId), taskId)

\* the catch of the handler: the 'error' event, or HTTP 500
errorOutcome(wantsStream) ==
    IF wantsStream THEN Outcome("sse_error", 0, <<>>, NULL)
    ELSE Outcome("http", 500, <<>>, NULL)

chatFrame == UNCHANGED
        <<dispatchVars, waitVars, requestVars, generateVars, workflowVars,
          identityVars, authVars, cacheVars, streamVars, limitVars,
          splitsVars, runVars, sessionVars, walletVars, uploadVars>>

\* OPTIONS is answered 200 (CORS preflight)
Preflight ==
    /\ chat_pc = "start"
    /\ req.method = "OPTIONS"
    /\ chat_pc' = "ended"
    /\ outcome' = Outcome("http", 200, <<>>, NULL)
    /\ UNCHANGED <<req, anthropicMessages, response, toolResults, generationTaskId,
                   sent, rounds, engineCalls, threwLog, toolFailed, engineFailed,
                   lastStarted>>
    /\ chatFrame

\* any other method than POST is answered 405
MethodNotAllowed ==
    /\ chat_pc = "start"
    /\ req.method \notin {"OPTIONS", "POST"}
    /\ chat_pc' = "ended"
    /\ outcome' = Outcome("http", 405, <<>>, NULL)
    /\ UNCHANGED <<req, anthropicMessages, response, toolResults, generationTaskId,
                   sent, rounds, engineCalls, threwLog, toolFailed, engineFailed,
                   lastStarted>>
    /\ chatFrame

\* a body without a messages array: the 'error' event, or HTTP 400
MessagesRequired ==
    /\ chat_pc = "start"
    /\ req.method = "POST"
    /\ ~req.hasMessagesArray
    /\ chat_pc' = "ended"
    /\ outcome' = IF req.wantsStream THEN Outcome("sse_error", 0, <<>>, NULL)
                  ELSE Outcome("http", 400, <<>>, NULL)
    /\ UNCHANGED <<req, anthropicMessages, response, toolResults, generationTaskId,
                   sent, rounds, engineCalls, threwLog, toolFailed, engineFailed,
                   lastStarted>>
    /\ chatFrame

\* the first engine call, with the caller's messages
FirstEngineCall ==
    /\ chat_pc = "start"
    /\ req.method = "POST"
    /\ req.hasMessagesArray
    /\ anthropicMessages' = req.messages
    /\ sent' = req.messages
    /\ engineCalls' = 1
    /\ chat_pc' = "engine"
    /\ UNCHANGED <<req, response, toolResults, generationTaskId, outcome, rounds,
                   threwLog, toolFailed, engineFailed, lastStarted>>
    /\ chatFrame

\* anthropic.messages.create(...) returns: the loop is entered (or continued)
\* when the response asks for tools, and left with the final answer otherwise
EngineReturns ==
    /\ chat_pc = "engine"
    /\ \E r \in EngineResponses :
        /\ response' = r
        /\ toolResults' = <<>>
        /\ threwLog' = <<>>
        /\ IF loopContinues(r)
           THEN /\ chat_pc' = "tools"
                /\ outcome' = outcome
           ELSE /\ chat_pc' = "done"
                /\ outcome' = finalOutcome(r, req.wantsStream, generationTaskId)
    /\ UNCHANGED <<req, anthropicMessages, generationTaskId, sent, rounds,
                   engineCalls, toolFailed, engineFailed, lastStarted>>
    /\ chatFrame

\* anthropic.messages.create(...) throws: the outer catch answers the error
EngineThrows ==
    /\ chat_pc = "engine"
    /\ chat_pc' = "error"
    /\ outcome' = errorOutcome(req.wantsStream)
    /\ engineFailed' = TRUE
    /\ UNCHANGED <<req, anthropicMessages, response, toolResults, generationTaskId,
                   sent, rounds, engineCalls, threwLog, toolFailed, lastStarted>>
    /\ chatFrame

\* mutant of ExecTool: no try/catch around callDistroApi, so a throwing tool
\* reaches the outer catch of the handler
ExecToolUncaught ==
    /\ chat_pc = "tools"
    /\ Len(toolResults) < Len(toolUseBlocks(response))
    /\ LET toolUse == toolUseBlocks(response)[Len(toolResults) + 1] IN
       \E b \in BackendOutcomes :
         LET r == callDistroApi(toolUse.name, toolUse.input, b) IN
           /\ toolResults' = IF r.threw THEN toolResults
                             ELSE Append(toolResults,
                                    [type |-> "tool_result", tool_use_id |-> toolUse.id,
                                     content |-> [error |-> r.error, taskId |-> r.taskId],
                                     is_error |-> FALSE])
           /\ generationTaskId' =
                IF ~req.wantsStream /\ ~r.threw /\ toolUse.name = "generate_music"
                   /\ r.taskId # NULL
                THEN r.taskId ELSE generationTaskId
           /\ threwLog' = IF r.threw THEN threwLog ELSE Append(threwLog, FALSE)
           /\ toolFailed' = (toolFailed \/ r.threw)
           /\ lastStarted' = IF r.taskId # NULL THEN r.taskId ELSE lastStarted
           /\ chat_pc' = IF r.threw THEN "error" ELSE chat_pc
           /\ outcome' = IF r.threw
                         THEN (IF req.wantsStream
                               THEN [kind |-> "sse_error", status |-> 0,
                                     response |-> <<>>, taskId |-> NULL]
                               ELSE [kind |-> "http", status |-> 500,
                                     response |-> <<>>, taskId |-> NULL])
                         ELSE outcome
    /\ UNCHANGED <<req, anthropicMessages, response, sent, rounds, engineCalls,
                   engineFailed>>
    /\ UNCHANGED
        <<dispatchVars, waitVars, requestVars, generateVars, workflowVars,
          identityVars, authVars, cacheVars, streamVars, limitVars,
          splitsVars, runVars, sessionVars, walletVars, uploadVars>>

\* one iteration of `for (const toolUse of toolUseBlocks)`: callDistroApi in
\* a try/catch, and the push of its result or of its error
ExecTool ==
    /\ chat_pc = "tools"
    /\ Len(toolResults) < Len(toolUseBlocks(response))
    /\ LET toolUse == toolUseBlocks(response)[Len(toolResults) + 1] IN
       \E b \in BackendOutcomes :
         LET r == callDistroApi(toolUse.name, toolUse.input, b) IN
           /\ toolResults' = pushResult(toolResults, toolUse, r)
           /\ generationTaskId' =
                captureTaskId(generationTaskId, req.wantsStream, toolUse, r)
           /\ threwLog' = Append(threwLog, r.threw)
           /\ toolFailed' = (toolFailed \/ r.threw)
           /\ lastStarted' = IF r.taskId # NULL THEN r.taskId ELSE lastStarted
    /\ UNCHANGED <<chat_pc, req, anthropicMessages, response, sent, outcome,
                   rounds, engineCalls, engineFailed>>
    /\ chatFrame

\* after the for loop: the follow-up engine call with the tool results
ContinueConversation ==
    /\ chat_pc = "tools"
    /\ Len(toolResults) = Len(toolUseBlocks(response))
    /\ sent' = nextMessages(anthropicMessages, Min(rounds + 1, MaxRounds))
    /\ rounds' = Min(rounds + 1, MaxRounds)
    /\ engineCalls' = Min(engineCalls + 1, MaxRounds + 1)
    /\ chat_pc' = "engine"
    /\ UNCHANGED <<req, anthropicMessages, response, toolResults, generationTaskId,
                   outcome, threwLog, toolFailed, engineFailed, lastStarted>>
    /\ chatFrame

-----------------------------------------------------------------------------
(* The tool dispatchers: the CallToolRequestSchema handler of the MCP      *)
(* server (src/index.ts), the one of the thin MCP client (dist/client.js)   *)
(* and callDistroApi of the chat handler (web/api/chat.ts).                 *)

Dispatchers == {"mcp_server", "thin_client", "chat"}

DispatchToolNames ==
    {"create_artist", "get_artists", "submit_release", "set_wallet", "no_such_tool"}

StringKinds == {"string"}
\* arrays of strings: of DSP names every registry lists, of DSP names only
\* the MCP server lists (pandora, instagram), of other strings
StringArrayKinds == {"dspsCommon", "dspsServerOnly", "dspsUnknown"}

\* A schema gives, for each of the two properties, the value kinds that
\* conform ("absent" conforms when the property is optional).
AnyInput == [p1 |-> ValueKinds, p2 |-> ValueKinds]

Conforms(schema, input) == input.p1 \in schema.p1 /\ input.p2 \in schema.p2

\* the tool registry of a dispatcher: the names of its `tools` list
registry(dispatcher) ==
    IF dispatcher = "mcp_server"
    THEN {"create_artist", "get_artists", "submit_release"}
    ELSE {"create_artist", "get_artists", "submit_release", "set_wallet"}

\* the input schema of a registered tool (inputSchema / input_schema)
inputSchema(dispatcher, name) ==
    CASE name = "create_artist" ->
            [p1 |-> StringKinds, p2 |-> StringArrayKinds \cup {"absent"}]
      [] name = "submit_release" ->
            [p1 |-> StringKinds,
             p2 |-> IF dispatcher = "mcp_server"
                    THEN {"dspsCommon", "dspsServerOnly"}
                    ELSE {"dspsCommon"}]
      [] name = "set_wallet" -> [p1 |-> StringKinds, p2 |-> StringKinds]
      [] OTHER -> AnyInput

\* resolve + validate of the registry: the name is registered and the
\* arguments conform to the tool's schema
ValidInvocation(call) ==
    /\ call.name \in registry(call.dispatcher)
    /\ Conforms(inputSchema(call.dispatcher, call.name), call.input)

\* the zod schemas of the MCP server: createArtistSchema, submitReleaseSchema
serverZodSchema(name) ==
    CASE name = "create_artist" ->
            [p1 |-> StringKinds, p2 |-> StringArrayKinds \cup {"absent"}]
      [] name = "submit_release" ->
            [p1 |-> StringKinds, p2 |-> {"dspsCommon", "dspsServerOnly"}]
      [] OTHER -> AnyInput

\* the zod schemas of the thin client: createArtistSchema,
\* submitReleaseSchema (dsps: z.array(z.string())), walletSchema
\* (walletAddress: z.string().optional())
clientZodSchema(name) ==
    CASE name = "create_artist" ->
            [p1 |-> StringKinds, p2 |-> StringArrayKinds \cup {"absent"}]
      [] name = "submit_release" -> [p1 |-> StringKinds, p2 |-> StringArrayKinds]
      [] name = "set_wallet" -> [p1 |-> StringKinds, p2 |-> {"string", "absent"}]
      [] OTHER -> AnyInput

DispatchResult(fetched, isError) == [fetched |-> fetched, isError |-> isError]
NoDispatchResult == DispatchResult(FALSE, FALSE)

\* the handler of the MCP server: switch on the name, schema.parse(args),
\* then the DittoClient call (or the mock answer without a client)
serverCallTool(call, backend) ==
    IF call.name \notin {"create_artist", "get_artists", "submit_release"}
    THEN DispatchResult(FALSE, TRUE)
    ELSE IF ~Conforms(serverZodSchema(call.name), call.input)
    THEN DispatchResult(FALSE, TRUE)
    ELSE IF ~call.hasDittoClient
    THEN DispatchResult(FALSE, FALSE)
    ELSE DispatchResult(TRUE, backend.kind # "ok")

\* the handler of the thin client: switch on the name, schema.parse(args),
\* then apiRequest
clientCallTool(call, backend) ==
    IF call.name \notin {"create_artist", "get_artists", "submit_release", "set_wallet"}
    THEN DispatchResult(FALSE, TRUE)
    ELSE IF ~Conforms(clientZodSchema(call.name), call.input)
    THEN DispatchResult(FALSE, TRUE)
    ELSE DispatchResult(TRUE, backend.kind # "ok")

\* the chat handler: callDistroApi inside the try/catch of the tool loop
chatCallTool(call, backend) ==
    LET r == callDistroApi(call.name, call.input, backend)
    IN DispatchResult(r.fetched, r.threw)

DispatchCalls ==
    [dispatcher : Dispatchers, name : DispatchToolNames, input : Inputs,
     hasDittoClient : BOOLEAN]

NoCall == [dispatcher |-> NULL, name |-> NULL,
           input |-> [p1 |-> "absent", p2 |-> "absent"], hasDittoClient |-> FALSE]

dispatchFrame == UNCHANGED
        <<chatVars, waitVars, requestVars, generateVars, workflowVars,
          identityVars, authVars, cacheVars, streamVars, limitVars,
          splitsVars, runVars, sessionVars, walletVars, uploadVars>>

McpServerCallTool ==
    /\ d_pc = "ready"
    /\ d_call.dispatcher = "mcp_server"
    /\ \E b \in BackendOutcomes : d_result' = serverCallTool(d_call, b)
    /\ d_pc' = "done"
    /\ UNCHANGED d_call
    /\ dispatchFrame

ThinClientCallTool ==
    /\ d_pc = "ready"
    /\ d_call.dispatcher = "thin_client"
    /\ \E b \in BackendOutcomes : d_result' = clientCallTool(d_call, b)
    /\ d_pc' = "done"
    /\ UNCHANGED d_call
    /\ dispatchFrame

ChatCallTool ==
    /\ d_pc = "ready"
    /\ d_call.dispatcher = "chat"
    /\ \E b \in BackendOutcomes : d_result' = chatCallTool(d_call, b)
    /\ d_pc' = "done"
    /\ UNCHANGED d_call
    /\ dispatchFrame

DispatchIdle == d_pc = "idle" /\ d_call = NoCall /\ d_result = NoDispatchResult

-----------------------------------------------------------------------------
(* SunoClient.waitForCompletion (src/suno-client.ts), with the calls it    *)
(* makes: getGenerationDetails and request.  Time is counted in seconds.   *)

\* maxWaitMs = 300000
maxWaitS == 300
\* pollIntervalMs = 8000
pollIntervalS == 8
\* const maxConsecutiveErrors = 10
maxConsecutiveErrors == 10
\* the cooldown before a successful return: setTimeout(resolve, 5000)
cooldownS == 5
\* retries = 5 attempts of one request
retries == 5
\* the wait after failed attempt N is 2000 * N milliseconds
backoffBaseS == 2

\* timeoutMs = 60000: a fetch that has not answered is aborted
timeoutS == 60

\* a fetch answers (or fails) at once, or only when the timeout aborts it
Latencies == {0, timeoutS}

\* the attempts of one request() that fail before an attempt answers: none,
\* or all but the last one
FailedAttempts == {0, retries - 1}

InProgressStatuses == {"PENDING", "TEXT_SUCCESS", "FIRST_SUCCESS"}
FailureStatuses ==
    {"CREATE_TASK_FAILED", "GENERATE_AUDIO_FAILED", "CALLBACK_EXCEPTION",
     "SENSITIVE_WORD_ERROR"}
Statuses == InProgressStatuses \cup FailureStatuses \cup {"SUCCESS"}

\* the tracks of a status response: no track, tracks without any audio URL,
\* a track with an audioUrl, a track with only a streamAudioUrl
TrackKinds == {"none", "no_url", "audio_url", "stream_url"}

\* what one poll can come to: request() throws after its last attempt, the
\* backend answers with code # 200, or it answers with a status and tracks
PollResponses ==
    {[kind |-> "request_failed", status |-> NULL, tracks |-> "none"],
     [kind |-> "api_error", status |-> NULL, tracks |-> "none"]}
    \cup [kind : {"details"}, status : Statuses \ {"SUCCESS"}, tracks : {"none"}]
    \cup [kind : {"details"}, status : {"SUCCESS"}, tracks : TrackKinds]

NoPoll == [kind |-> "none", status |-> NULL, tracks |-> "none"]

RECURSIVE backoffTotal(_)
\* the waits of request() after failed attempts 1..k: 2 * attempt seconds each
backoffTotal(k) == IF k = 0 THEN 0 ELSE backoffTotal(k - 1) + backoffBaseS * k

\* the time one call of request() takes when its first `failed` attempts
\* fail and every fetch takes `latency`: no wait follows the last attempt
requestDuration(failed, latency) ==
    IF failed >= retries
    THEN retries * latency + backoffTotal(retries - 1)
    ELSE (failed + 1) * latency + backoffTotal(failed)

\* getGenerationDetails throws when request() threw or when code # 200
detailsThrows(resp) == resp.kind \in {"request_failed", "api_error"}

\* mutant of hasValidAudio: only streamAudioUrl is looked at
hasValidAudioStreamOnly(resp) == resp.tracks = "stream_url"

\* details.tracks && details.tracks.length > 0 &&
\* details.tracks.some(t => t.audioUrl || t.streamAudioUrl)
hasValidAudio(resp) == resp.tracks \in {"audio_url", "stream_url"}

\* the `if` that throws 'Music generation failed' inside the try block
isFailureStatus(resp) == resp.status \in FailureStatuses

\* if (consecutiveErrors >= maxConsecutiveErrors) throw ...
tooManyErrors(n) == n >= maxConsecutiveErrors

\* mutant of withinDeadline: one more poll interval is granted
withinDeadlineLate(t, start) == t - start < maxWaitS + pollIntervalS

\* while (Date.now() - startTime < maxWaitMs)
withinDeadline(t, start) == t - start < maxWaitS

\* One pass of the try/catch of the loop body for a poll response: the value
\* of consecutiveErrors afterwards and where the loop goes.  The throw for a
\* failure status happens inside the try block, so the catch of the same
\* block receives it like any poll error.
pollStep(resp, errors) ==
    IF detailsThrows(resp)
    THEN [errors |-> errors + 1,
          to |-> IF tooManyErrors(errors + 1) THEN "tooManyErrors" ELSE "sleeping"]
    ELSE IF resp.status = "SUCCESS" /\ hasValidAudio(resp)
    THEN [errors |-> 0, to |-> "cooldown"]
    ELSE IF isFailureStatus(resp)
    THEN [errors |-> 1,
          to |-> IF tooManyErrors(1) THEN "tooManyErrors" ELSE "sleeping"]
    ELSE [errors |-> 0, to |-> "sleeping"]

\* the two copies of SunoClient in the repository: src/suno-client.ts, and
\* the earlier one kept in dist/suno-client.js and at the end of src/index.ts
Editions == {"current", "earlier"}

\* The try/catch of the loop body in the earlier copy: any SUCCESS returns
\* the details at once, without a look at the tracks and without cooldown.
pollStepEarlier(resp, errors) ==
    IF detailsThrows(resp)
    THEN [errors |-> errors + 1,
          to |-> IF tooManyErrors(errors + 1) THEN "tooManyErrors" ELSE "sleeping"]
    ELSE IF resp.status = "SUCCESS"
    THEN [errors |-> 0, to |-> "returned"]
    ELSE IF isFailureStatus(resp)
    THEN [errors |-> 1,
          to |-> IF tooManyErrors(1) THEN "tooManyErrors" ELSE "sleeping"]
    ELSE [errors |-> 0, to |-> "sleeping"]

\* progress along the polls PENDING, PENDING, SUCCESS with an audio URL:
\* 0..2 polls matched so far, 3 the whole sequence, -1 another sequence
scenarioStep(sc, resp) ==
    IF sc \in {0, 1} /\ resp.kind = "details" /\ resp.status = "PENDING" THEN sc + 1
    ELSE IF sc = 2 /\ resp.kind = "details" /\ resp.status = "SUCCESS"
            /\ resp.tracks = "audio_url" THEN 3
    ELSE -1

waitFrame == UNCHANGED
        <<chatVars, dispatchVars, requestVars, generateVars, workflowVars,
          identityVars, authVars, cacheVars, streamVars, limitVars,
          splitsVars, runVars, sessionVars, walletVars, uploadVars>>

\* const startTime = Date.now(); let pollCount = 0; let consecutiveErrors = 0
WaitStart ==
    /\ w_pc = "called"
    /\ startTime' = now
    /\ pollCount' = 0
    /\ consecutiveErrors' = 0
    /\ w_pc' = "loop"
    /\ UNCHANGED <<now, details, failureSeen, onlyNetErrors, scenario, slept,
                   edition>>
    /\ waitFrame

\* one iteration of the loop up to its wait: pollCount++, the call of
\* getGenerationDetails (with the attempts of request), and the try/catch
Poll ==
    /\ w_pc = "loop"
    /\ withinDeadline(now, startTime)
    /\ \E resp \in PollResponses, failed \in FailedAttempts, latency \in Latencies :
         LET attempts == IF resp.kind = "request_failed" THEN retries ELSE failed
             step == IF edition = "current" THEN pollStep(resp, consecutiveErrors)
                     ELSE pollStepEarlier(resp, consecutiveErrors)
         IN /\ now' = now + requestDuration(attempts, latency)
            /\ pollCount' = pollCount + 1
            /\ consecutiveErrors' = step.errors
            /\ w_pc' = step.to
            /\ details' = resp
            /\ failureSeen' = (failureSeen \/ (resp.kind = "details" /\ isFailureStatus(resp)))
            /\ onlyNetErrors' =
                 IF resp.kind = "request_failed" THEN onlyNetErrors
                 ELSE step.errors = 0
            /\ scenario' = scenarioStep(scenario, resp)
    /\ UNCHANGED <<startTime, slept, edition>>
    /\ waitFrame

\* await new Promise(resolve => setTimeout(resolve, pollIntervalMs))
Sleep ==
    /\ w_pc = "sleeping"
    /\ now' = now + pollIntervalS
    /\ w_pc' = "loop"
    /\ details' = NoPoll
    /\ slept' = slept + pollIntervalS
    /\ UNCHANGED <<startTime, pollCount, consecutiveErrors, failureSeen,
                   onlyNetErrors, scenario, edition>>
    /\ waitFrame

\* the 5 s cooldown and `return details`
ReturnDetails ==
    /\ w_pc = "cooldown"
    /\ now' = now + cooldownS
    /\ w_pc' = "returned"
    /\ UNCHANGED <<startTime, pollCount, consecutiveErrors, details, failureSeen,
                   onlyNetErrors, scenario, slept, edition>>
    /\ waitFrame

\* the loop condition fails: throw 'Music generation timed out'
TimeOut ==
    /\ w_pc = "loop"
    /\ ~withinDeadline(now, startTime)
    /\ w_pc' = "timedOut"
    /\ UNCHANGED <<now, startTime, pollCount, consecutiveErrors, details,
                   failureSeen, onlyNetErrors, scenario, slept, edition>>
    /\ waitFrame

WaitIdle ==
    /\ w_pc = "idle"
    /\ now = 0
    /\ startTime = 0
    /\ pollCount = 0
    /\ consecutiveErrors = 0
    /\ details = NoPoll
    /\ failureSeen = FALSE
    /\ onlyNetErrors = TRUE
    /\ scenario = 0
    /\ slept = 0
    /\ edition = "current"

-----------------------------------------------------------------------------
(* One request of a backend adapter: SunoClient.request (attempt loop with *)
(* abort timer and backoff), DittoClient.request (authenticate, then one   *)
(* fetch) and the fetch of callDistroApi.                                  *)

Clients == {"suno", "ditto", "chat"}

\* how one fetch can end: a 2xx answer with a JSON body, a 2xx answer whose
\* body is not JSON, a 4xx or 5xx answer, a network error, or no answer at all
FetchOutcomes == {"ok", "bad_body", "http_4xx", "http_5xx", "network_error", "no_answer"}

\* this.auth: a token still valid for 5 minutes, an expired one (with its
\* refresh token), or none
AuthStates == {"valid", "expired", "none"}

\* the fetch of SunoClient.request runs under an abort timer of timeoutMs: a
\* backend that does not answer is aborted and seen as a failed attempt
sunoFetch(o) == IF o = "no_answer" THEN "timeout" ELSE o

\* a fetch without abort signal: without an answer the await never resumes
plainFetch(o) == IF o = "no_answer" THEN "blocked" ELSE o

\* the failures the catch of the attempt loop receives: the throw for
\* !response.ok and the rejections of fetch.  `return response.json()` is
\* not awaited inside the try, so its rejection leaves request() directly.
caughtBySunoRetry(r) == r \in {"http_4xx", "http_5xx", "network_error", "timeout"}

\* mutant of backoffWait: the same wait after every failed attempt
backoffWaitFlat(n) == backoffBaseS

\* setTimeout(resolve, 2000 * attempt)
backoffWait(n) == backoffBaseS * n

\* authenticate(): the fetches it sends and how it ends.  o1 is the answer to
\* /api/token/refresh (any failure of it falls through to the full login),
\* o2 to /authentication_token, o3 to /api/login.
authenticate(auth, o1, o2, o3) ==
    IF auth = "valid" THEN [sent |-> 0, result |-> "ok"]
    ELSE LET r == IF auth = "expired" THEN 1 ELSE 0 IN
         IF auth = "expired" /\ plainFetch(o1) = "blocked"
         THEN [sent |-> 1, result |-> "blocked"]
         ELSE IF auth = "expired" /\ o1 = "ok"
         THEN [sent |-> 1, result |-> "ok"]
         ELSE IF plainFetch(o2) = "blocked"
         THEN [sent |-> r + 1, result |-> "blocked"]
         ELSE IF o2 = "network_error"
         THEN [sent |-> r + 1, result |-> "threw"]
         ELSE IF o2 \in {"ok", "bad_body"}
         THEN [sent |-> r + 1, result |-> IF o2 = "ok" THEN "ok" ELSE "threw"]
         ELSE IF plainFetch(o3) = "blocked"
         THEN [sent |-> r + 2, result |-> "blocked"]
         ELSE [sent |-> r + 2, result |-> IF o3 = "ok" THEN "ok" ELSE "threw"]

requestFrame == UNCHANGED
        <<chatVars, dispatchVars, waitVars, generateVars, workflowVars,
          identityVars, authVars, cacheVars, streamVars, limitVars,
          splitsVars, runVars, sessionVars, walletVars, uploadVars>>

\* one pass of the attempt loop of SunoClient.request: the fetch under the
\* abort timer, the return, or the catch that decides on another attempt
SunoAttempt ==
    /\ q_client = "suno"
    /\ q_pc = "attempt"
    /\ attempt <= retries
    /\ \E o \in FetchOutcomes :
         LET r == sunoFetch(o) IN
         /\ q_last' = r
         /\ q_sent' = q_sent + 1
         /\ IF r = "ok" THEN q_pc' = "returned" /\ attempt' = attempt
            ELSE IF ~caughtBySunoRetry(r) THEN q_pc' = "threw" /\ attempt' = attempt
            ELSE IF attempt < retries THEN q_pc' = "backoff" /\ attempt' = attempt
            ELSE q_pc' = "threw" /\ attempt' = attempt + 1
         /\ q_elapsed' = q_elapsed + (IF r = "timeout" THEN timeoutS ELSE 0)
    /\ UNCHANGED <<q_client, q_auth, q_authSent, q_waits>>
    /\ requestFrame

\* if (attempt < retries) await setTimeout(2000 * attempt); then attempt++
SunoBackoff ==
    /\ q_client = "suno"
    /\ q_pc = "backoff"
    /\ q_waits' = Append(q_waits, backoffWait(attempt))
    /\ attempt' = attempt + 1
    /\ q_pc' = "attempt"
    /\ q_elapsed' = q_elapsed + backoffWait(attempt)
    /\ UNCHANGED <<q_client, q_auth, q_sent, q_authSent, q_last>>
    /\ requestFrame

\* const token = await this.authenticate()
DittoAuthenticate ==
    /\ q_client = "ditto"
    /\ q_pc = "auth"
    /\ \E o1 \in FetchOutcomes, o2 \in FetchOutcomes, o3 \in FetchOutcomes :
         LET a == authenticate(q_auth, o1, o2, o3) IN
         /\ q_authSent' = a.sent
         /\ q_pc' = IF a.result = "ok" THEN "attempt" ELSE a.result
         /\ q_auth' = IF a.result = "ok" THEN "valid" ELSE q_auth
    /\ UNCHANGED <<q_client, attempt, q_sent, q_waits, q_last, q_elapsed>>
    /\ requestFrame

\* the one fetch of DittoClient.request, and its throw when !response.ok
DittoFetch ==
    /\ q_client = "ditto"
    /\ q_pc = "attempt"
    /\ \E o \in FetchOutcomes :
         LET r == plainFetch(o) IN
         /\ q_last' = r
         /\ q_sent' = q_sent + 1
         /\ q_pc' = IF r = "ok" THEN "returned"
                    ELSE IF r = "blocked" THEN "blocked" ELSE "threw"
    /\ UNCHANGED <<q_client, q_auth, attempt, q_authSent, q_waits, q_elapsed>>
    /\ requestFrame

\* the fetch of callDistroApi, `await response.json()` and the throw when
\* !response.ok
ChatFetch ==
    /\ q_client = "chat"
    /\ q_pc = "attempt"
    /\ \E o \in FetchOutcomes :
         LET r == plainFetch(o) IN
         /\ q_last' = r
         /\ q_sent' = q_sent + 1
         /\ q_pc' = IF r = "ok" THEN "returned"
                    ELSE IF r = "blocked" THEN "blocked" ELSE "threw"
    /\ UNCHANGED <<q_client, q_auth, attempt, q_authSent, q_waits, q_elapsed>>
    /\ requestFrame

RequestIdle ==
    /\ q_pc = "idle"
    /\ q_client = "suno"
    /\ q_auth = "none"
    /\ attempt = 1
    /\ q_sent = 0
    /\ q_authSent = 0
    /\ q_waits = <<>>
    /\ q_last = NULL
    /\ q_elapsed = 0

-----------------------------------------------------------------------------
(* Starting a generation job: the generate_music case of callDistroApi     *)
(* posts to /api/generate with wait: false; the route exists in two        *)
(* copies, src/server.ts and the compiled server with the wait flag.       *)

\* status polls of one waitForCompletion that are counted exactly
MaxPolls == 3

\* src/server.ts, and the compiled server kept in dist/ditto-client.d.ts
Servers == {"server_ts", "compiled"}

GenerateBodies == [hasPrompt : BOOLEAN, wait : {"false", "true", "absent"}]

\* the answers of POST /api/generate
GenAnswer(status, taskId, tracks) == [status |-> status, taskId |-> taskId, tracks |-> tracks]
NoGenAnswer == GenAnswer(0, NULL, FALSE)

\* what the generate_music case returns: { success, taskId, status:
\* 'GENERATING', ... }, or the throw when !genRes.ok
GenResult(threw, taskId) == [threw |-> threw, taskId |-> taskId]
NoGenResult == GenResult(FALSE, NULL)

\* if (wait === false) return res.json({ taskId, status: 'PENDING' }): only
\* the compiled server reads the flag
honoursWaitFlag(server, body) == server = "compiled" /\ body.wait = "false"

generateFrame == UNCHANGED
        <<chatVars, dispatchVars, waitVars, requestVars, workflowVars,
          identityVars, authVars, cacheVars, streamVars, limitVars,
          splitsVars, runVars, sessionVars, walletVars, uploadVars>>

\* the guards of the route: no Suno client -> 503, daily limit reached
\* (compiled server) -> 429, neither prompt nor lyrics -> 400
GenerateRefused ==
    /\ g_pc = "posted"
    /\ \E status \in {503, 429, 400} :
         /\ status = 429 => g_server = "compiled"
         /\ status = 400 => ~g_body.hasPrompt
         /\ g_answer' = GenAnswer(status, NULL, FALSE)
    /\ g_pc' = "answered"
    /\ UNCHANGED <<g_server, g_body, g_submissions, g_polls, g_result>>
    /\ generateFrame

\* const task = await sunoClient.generateMusic(...): the submission; its
\* throw becomes the 500 of the error middleware; with wait === false the
\* compiled server answers at once
GenerateSubmit ==
    /\ g_pc = "posted"
    /\ g_body.hasPrompt
    /\ g_submissions' = g_submissions + 1
    /\ \E t \in TaskIds \cup {NULL} :
         IF t = NULL
         THEN g_answer' = GenAnswer(500, NULL, FALSE) /\ g_pc' = "answered"
         ELSE IF honoursWaitFlag(g_server, g_body)
         THEN g_answer' = GenAnswer(200, t, FALSE) /\ g_pc' = "answered"
         ELSE g_answer' = GenAnswer(0, t, FALSE) /\ g_pc' = "waiting"
    /\ UNCHANGED <<g_server, g_body, g_polls, g_result>>
    /\ generateFrame

\* one status poll of `await sunoClient.waitForCompletion(task.taskId)`
GeneratePoll ==
    /\ g_pc = "waiting"
    /\ g_polls < MaxPolls
    /\ g_polls' = g_polls + 1
    /\ \E done \in BOOLEAN :
         IF done
         THEN g_answer' = GenAnswer(200, g_answer.taskId, TRUE) /\ g_pc' = "answered"
         ELSE g_answer' = g_answer /\ g_pc' = "waiting"
    /\ UNCHANGED <<g_server, g_body, g_submissions, g_result>>
    /\ generateFrame

\* waitForCompletion throws (timed out, too many polling errors): 500
GenerateWaitThrows ==
    /\ g_pc = "waiting"
    /\ g_polls > 0
    /\ g_answer' = GenAnswer(500, NULL, FALSE)
    /\ g_pc' = "answered"
    /\ UNCHANGED <<g_server, g_body, g_submissions, g_polls, g_result>>
    /\ generateFrame

\* const genData = await genRes.json(); if (!genRes.ok) throw ...;
\* return { success: true, taskId: genData.taskId, status: 'GENERATING' }
GenerateReturns ==
    /\ g_pc = "answered"
    /\ g_result' = IF g_answer.status = 200 THEN GenResult(FALSE, g_answer.taskId)
                   ELSE GenResult(TRUE, NULL)
    /\ g_pc' = "returned"
    /\ UNCHANGED <<g_server, g_body, g_submissions, g_polls, g_answer>>
    /\ generateFrame

GenerateIdle ==
    /\ g_pc = "idle"
    /\ g_server = "server_ts"
    /\ g_body = [hasPrompt |-> FALSE, wait |-> "absent"]
    /\ g_submissions = 0
    /\ g_polls = 0
    /\ g_answer = NoGenAnswer
    /\ g_result = NoGenResult

-----------------------------------------------------------------------------
(* The one-shot release workflow: the release_ai_track tool of the MCP     *)
(* server (src/index.ts) and POST /api/release-full of the compiled HTTP   *)
(* server.  Steps: generation, identity, release, track, artwork, submit.  *)

Flows == {"release_ai_track", "release_full"}

\* the steps in the order the code runs them
StepOrder == <<"generate", "identity", "release", "track", "artwork", "submit">>

FlowOptions == [artwork : BOOLEAN, dsps : BOOLEAN]

\* the result handed to the caller: { success, steps | error, ... }
FlowResult(answered, success, notes) ==
    [answered |-> answered, success |-> success, notes |-> notes]
NoFlowResult == FlowResult(FALSE, FALSE, {})

\* mutant of onFailure: a failed track attachment is only logged
onFailureTrackLogged(flow, step) ==
    IF step \in {"track", "artwork"} THEN "logged"
    ELSE IF step = "submit" /\ flow = "release_full" THEN "logged"
    ELSE "abort"

\* mutant of onFailure: a failed artwork step ends the workflow
onFailureArtworkFatal(flow, step) ==
    IF step = "submit" /\ flow = "release_full" THEN "logged" ELSE "abort"

\* What a failed step leads to.  release_ai_track: the artwork step has its
\* own try/catch that pushes the failure to `steps`; every other throw
\* reaches the outer catch, which returns success: false.  /api/release-full:
\* generation, artist, release and track return an error status; the catch
\* of the artwork and of the submit step only writes to the console.
onFailure(flow, step) ==
    IF step = "artwork"
    THEN (IF flow = "release_ai_track" THEN "noted" ELSE "logged")
    ELSE IF step = "submit" /\ flow = "release_full" THEN "logged"
    ELSE "abort"

\* whether a step runs at all: artwork only with an artworkPrompt (or with a
\* downloaded cover image), submit of release_ai_track only with dsps
stepRuns(flow, opts, step) ==
    IF step = "artwork" THEN opts.artwork
    ELSE IF step = "submit" THEN (flow = "release_full" \/ opts.dsps)
    ELSE TRUE

\* the step after `step`, or "finish" after the last one
nextStep(step) ==
    LET i == CHOOSE k \in 1..Len(StepOrder) : StepOrder[k] = step
    IN IF i = Len(StepOrder) THEN "finish" ELSE StepOrder[i + 1]

workflowFrame ==
    UNCHANGED
        <<chatVars, dispatchVars, waitVars, requestVars, generateVars,
          identityVars, authVars, cacheVars, streamVars, limitVars,
          splitsVars, runVars, sessionVars, walletVars, uploadVars>>

\* the backend calls of the current step succeed
StepSucceeds ==
    /\ f_pc \in {StepOrder[k] : k \in 1..Len(StepOrder)}
    /\ stepRuns(f_flow, f_opts, f_pc)
    /\ f_calls' = Append(f_calls, f_pc)
    /\ f_pc' = nextStep(f_pc)
    /\ UNCHANGED <<f_flow, f_opts, f_failed, f_logged, f_result>>
    /\ workflowFrame

\* a backend call of the current step throws
StepFails ==
    /\ f_pc \in {StepOrder[k] : k \in 1..Len(StepOrder)}
    /\ stepRuns(f_flow, f_opts, f_pc)
    /\ f_calls' = Append(f_calls, f_pc)
    /\ f_failed' = f_failed \cup {f_pc}
    /\ LET to == onFailure(f_flow, f_pc) IN
         /\ f_pc' = IF to = "abort" THEN "answered" ELSE nextStep(f_pc)
         /\ f_logged' = IF to = "logged" THEN f_logged \cup {f_pc} ELSE f_logged
         /\ f_result' =
              IF to = "abort" THEN FlowResult(TRUE, FALSE, f_result.notes \cup {f_pc})
              ELSE IF to = "noted"
              THEN FlowResult(FALSE, FALSE, f_result.notes \cup {f_pc})
              ELSE f_result
    /\ UNCHANGED <<f_flow, f_opts>>
    /\ workflowFrame

\* the step is not asked for: no artworkPrompt / no cover image, no dsps
StepSkipped ==
    /\ f_pc \in {StepOrder[k] : k \in 1..Len(StepOrder)}
    /\ ~stepRuns(f_flow, f_opts, f_pc)
    /\ f_pc' = nextStep(f_pc)
    /\ UNCHANGED <<f_flow, f_opts, f_calls, f_failed, f_logged, f_result>>
    /\ workflowFrame

\* the return after the last step: success: true with the steps / the ids
WorkflowReturns ==
    /\ f_pc = "finish"
    /\ f_result' = FlowResult(TRUE, TRUE, f_result.notes)
    /\ f_pc' = "answered"
    /\ UNCHANGED <<f_flow, f_opts, f_calls, f_failed, f_logged>>
    /\ workflowFrame

WorkflowIdle ==
    /\ f_pc = "idle"
    /\ f_flow = "release_ai_track"
    /\ f_opts = [artwork |-> FALSE, dsps |-> FALSE]
    /\ f_calls = <<>>
    /\ f_failed = {}
    /\ f_logged = {}
    /\ f_result = NoFlowResult

-----------------------------------------------------------------------------
(***************************************************************************)
(* Identity resolution ("find or create artist") of the one-shot release   *)
(* workflow: step 3 of release_ai_track (src/index.ts) and step 2 of       *)
(* POST /api/release-full (compiled server).                               *)
(***************************************************************************)
MaxRuns == 2

\* artist names as the caller and the backend spell them
ArtistNames == {"Nova", "nova", "NOVA", "Echo"}

\* String.prototype.toLowerCase on the names of the model
toLowerCase(name) ==
    CASE name \in {"Nova", "nova", "NOVA"} -> "nova"
      [] name = "Echo" -> "echo"
      [] OTHER -> name

\* an artist of the backend; name is NULL for a record without a name
Artist(id, name) == [id |-> id, name |-> name]

\* a.name?.toLowerCase() === validated.artistName.toLowerCase()
sameName(a, artistName) ==
    /\ a.name # NULL
    /\ toLowerCase(a.name) = toLowerCase(artistName)

\* list.find(...): the index of the first artist of that name, 0 for
\* undefined
find(list, artistName) ==
    IF \E k \in 1..Len(list) : sameName(list[k], artistName)
    THEN CHOOSE k \in 1..Len(list) :
            /\ sameName(list[k], artistName)
            /\ \A j \in 1..(k - 1) : ~sameName(list[j], artistName)
    ELSE 0

\* Array.isArray(existingArtists) ? existingArtists
\*                                : (existingArtists['hydra:member'] || [])
ListShapes == {"array", "hydra"}
getArtists(shape, artists) ==
    [isArray |-> shape = "array",
     items |-> IF shape = "array" THEN artists ELSE <<>>,
     member |-> IF shape = "hydra" THEN artists ELSE <<>>]
artistList(existingArtists) ==
    IF existingArtists.isArray THEN existingArtists.items
    ELSE existingArtists.member

\* the id the backend gives to the next artist it creates
nextArtistId(artists) == Len(artists) + 1

\* one run of an identity step: what it found, whether it called createArtist
IdentityRun(name, found, created, artistId) ==
    [name |-> name, found |-> found, created |-> created, artistId |-> artistId]

identityFrame ==
    UNCHANGED
        <<chatVars, dispatchVars, waitVars, requestVars, generateVars,
          workflowVars, authVars, cacheVars, streamVars, limitVars,
          splitsVars, runVars, sessionVars, walletVars, uploadVars>>

\* step 3 of release_ai_track: getArtists, find by lower-case name, create
\* only when nothing was found
FindOrCreateArtist ==
    /\ i_flow = "release_ai_track"
    /\ Len(i_runs) < MaxRuns
    /\ \E artistName \in ArtistNames, shape \in ListShapes :
         LET k == find(artistList(getArtists(shape, i_artists)), artistName) IN
           /\ i_shape' = shape
           /\ IF k # 0
              THEN /\ i_runs' = Append(i_runs,
                        IdentityRun(artistName, TRUE, FALSE, i_artists[k].id))
                   /\ UNCHANGED <<i_artists, i_created>>
              ELSE /\ i_artists' = Append(i_artists,
                        Artist(nextArtistId(i_artists), artistName))
                   /\ i_created' = i_created + 1
                   /\ i_runs' = Append(i_runs,
                        IdentityRun(artistName, FALSE, TRUE,
                                    nextArtistId(i_artists)))
    /\ UNCHANGED i_flow
    /\ identityFrame

\* step 2 of POST /api/release-full: createArtist(artistName), no lookup
CreateArtistAlways ==
    /\ i_flow = "release_full"
    /\ Len(i_runs) < MaxRuns
    /\ \E artistName \in ArtistNames :
         /\ i_artists' = Append(i_artists,
                                Artist(nextArtistId(i_artists), artistName))
         /\ i_created' = i_created + 1
         /\ i_runs' = Append(i_runs,
              IdentityRun(artistName,
                          \E k \in 1..Len(i_artists) :
                              sameName(i_artists[k], artistName),
                          TRUE, nextArtistId(i_artists)))
    /\ UNCHANGED <<i_flow, i_shape>>
    /\ identityFrame

\* a call of the identity step throws (getArtists or createArtist): the
\* workflow ends there and nothing was created
IdentityCallThrows ==
    /\ Len(i_runs) < MaxRuns
    /\ \E artistName \in ArtistNames :
         i_runs' = Append(i_runs, IdentityRun(artistName, FALSE, FALSE, 0))
    /\ UNCHANGED <<i_flow, i_artists, i_shape, i_created>>
    /\ identityFrame

IdentityIdle ==
    /\ i_flow = "release_ai_track"
    /\ i_artists = <<>>
    /\ i_shape = "array"
    /\ i_runs = <<>>
    /\ i_created = 0

-----------------------------------------------------------------------------
(***************************************************************************)
(* DittoClient.authenticate (src/ditto-client.ts) with the token cache     *)
(* `this.auth` and the clock: cached token, refresh exchange, full login   *)
(* at /authentication_token with the fallback /api/login.  Time is in      *)
(* minutes.                                                                *)
(***************************************************************************)
MaxCalls == 2
MaxTime == 66
TimeSteps == {1, 5, 50}

bufferMin == 5
expiryMin == 60

AuthToken(token, refreshToken, expiresAt) ==
    [cached |-> TRUE, token |-> token, refreshToken |-> refreshToken,
     expiresAt |-> expiresAt]
NoAuth == [cached |-> FALSE, token |-> 0, refreshToken |-> FALSE, expiresAt |-> 0]

\* the buffer is ignored: the token is used up to its expiry
tokenStillValidNoBuffer(auth, t) == auth.cached /\ auth.expiresAt > t

\* this.auth && this.auth.expiresAt > Date.now() + 5 * 60 * 1000
tokenStillValid(auth, t) == auth.cached /\ auth.expiresAt > t + bufferMin

\* this.auth?.refreshToken
holdsRefreshToken(auth) == auth.cached /\ auth.refreshToken

Fetched(endpoint, o) == [endpoint |-> endpoint, outcome |-> o]

\* a failed refresh is thrown to the caller
afterRefreshSurfaces(o) ==
    CASE o = "ok" -> "token"
      [] o = "no_answer" -> "blocked"
      [] OTHER -> "threw"

\* the try/catch around the refresh exchange: OK with a JSON body returns the
\* new token, every failure falls through to the full login
afterRefresh(o) ==
    CASE o = "ok" -> "token"
      [] o = "no_answer" -> "blocked"
      [] OTHER -> "login"

\* a rejection of /authentication_token is thrown without a second endpoint
afterPrimaryNoFallback(o) ==
    CASE o = "ok" -> "token"
      [] o = "no_answer" -> "blocked"
      [] OTHER -> "threw"

\* POST /authentication_token: !response.ok goes on to /api/login; a network
\* error of fetch and a body that is not JSON are thrown
afterPrimary(o) ==
    CASE o = "ok" -> "token"
      [] o = "no_answer" -> "blocked"
      [] o \in {"http_4xx", "http_5xx"} -> "secondary"
      [] OTHER -> "threw"

\* POST /api/login: !response.ok throws 'Auth failed ...'
afterSecondary(o) ==
    CASE o = "ok" -> "token"
      [] o = "no_answer" -> "blocked"
      [] OTHER -> "threw"

\* the full login from line 95 on: the fetches made and how it ends
fullLogin(o2, o3) ==
    LET p == afterPrimary(o2) IN
      IF p = "secondary"
      THEN [trail |-> <<Fetched("/authentication_token", o2),
                        Fetched("/api/login", o3)>>,
            result |-> afterSecondary(o3)]
      ELSE [trail |-> <<Fetched("/authentication_token", o2)>>, result |-> p]

\* one call of authenticate at time t: the fetches it makes, how it ends, and
\* from which exchange the token it returns comes
authenticateAt(auth, t, o1, o2, o3) ==
    IF tokenStillValid(auth, t)
    THEN [trail |-> <<>>, result |-> "token", by |-> "cache"]
    ELSE IF holdsRefreshToken(auth) /\ afterRefresh(o1) # "login"
    THEN [trail |-> <<Fetched("/api/token/refresh", o1)>>,
          result |-> afterRefresh(o1), by |-> "refresh"]
    ELSE LET l == fullLogin(o2, o3) IN
         [trail |-> (IF holdsRefreshToken(auth)
                     THEN <<Fetched("/api/token/refresh", o1)>> ELSE <<>>)
                    \o l.trail,
          result |-> l.result, by |-> "login"]

\* the ways one call of authenticate at time t can go, over the answers of
\* the three endpoints
AuthRuns(auth, t) ==
    {authenticateAt(auth, t, o1, o2, o3) : o1, o2, o3 \in FetchOutcomes}

\* what one call of authenticate found and did
AuthCall(at, auth, since, trail, result, token) ==
    [at |-> at, cachedBefore |-> auth.cached,
     remaining |-> auth.expiresAt - at,
     heldRefresh |-> holdsRefreshToken(auth), tokenBefore |-> auth.token,
     sinceExchange |-> since, trail |-> trail, result |-> result,
     token |-> token]
NoAuthCall == AuthCall(0, NoAuth, -1, <<>>, NULL, 0)

authFrame ==
    UNCHANGED
        <<chatVars, dispatchVars, waitVars, requestVars, generateVars,
          workflowVars, identityVars, cacheVars, streamVars, limitVars,
          splitsVars, runVars, sessionVars, walletVars, uploadVars>>

\* time passes between two calls
AuthTick ==
    /\ a_pc = "ready"
    /\ \E d \in TimeSteps :
         /\ a_now + d <= MaxTime
         /\ a_now' = a_now + d
    /\ UNCHANGED <<a_pc, a_auth, a_issued, a_exchangedAt, a_done, a_call>>
    /\ authFrame

\* a failed call drops the cached record
authAfterDropsOnFailure(auth, r, token, refreshes, t) ==
    IF r.result = "token" /\ r.by = "cache" THEN auth
    ELSE IF r.result # "token" THEN NoAuth
    ELSE IF r.by = "refresh" THEN AuthToken(token, TRUE, t + expiryMin)
    ELSE AuthToken(token, refreshes, t + expiryMin)

\* this.auth after the call: assigned at lines 82-86 (refresh, the old refresh
\* token kept when the answer has none) and 129-133 (login), nowhere else
authAfter(auth, r, token, refreshes, t) ==
    IF ~(r.result = "token" /\ r.by # "cache") THEN auth
    ELSE IF r.by = "refresh" THEN AuthToken(token, TRUE, t + expiryMin)
    ELSE AuthToken(token, refreshes, t + expiryMin)

\* one call of authenticate(); refreshes is whether the answer of a login
\* carries a refresh_token
Authenticate ==
    /\ a_pc = "ready"
    /\ a_done < MaxCalls
    /\ \E r \in AuthRuns(a_auth, a_now), refreshes \in BOOLEAN :
         LET since == IF a_exchangedAt < 0 THEN -1 ELSE a_now - a_exchangedAt
             exchanged == r.result = "token" /\ r.by # "cache"
             token == IF exchanged THEN a_issued + 1
                      ELSE IF r.by = "cache" THEN a_auth.token ELSE 0
         IN
           /\ a_call' = AuthCall(a_now, a_auth, since, r.trail, r.result, token)
           /\ a_auth' = authAfter(a_auth, r, token, refreshes, a_now)
           /\ a_issued' = IF exchanged THEN a_issued + 1 ELSE a_issued
           /\ a_exchangedAt' = IF exchanged THEN a_now ELSE a_exchangedAt
           /\ a_pc' = IF r.result = "blocked" THEN "blocked" ELSE "ready"
    /\ a_done' = a_done + 1
    /\ UNCHANGED a_now
    /\ authFrame

AuthIdle ==
    /\ a_pc = "idle"
    /\ a_now = 0
    /\ a_auth = NoAuth
    /\ a_issued = 0
    /\ a_exchangedAt = -1
    /\ a_done = 0
    /\ a_call = NoAuthCall

-----------------------------------------------------------------------------
(***************************************************************************)
(* GET /api/generate/status/:taskId of the HTTP server (compiled server and *)
(* its nameless copy) with the audioCache Map.  Requests are handled        *)
(* concurrently: a handler gives way at each await.                         *)
(***************************************************************************)
MaxStatusRequests == 2
cacheLimit == 10

StatusSlots == 1..MaxStatusRequests
StatusTaskIds == {1, 2}

\* an entry of audioCache: the key and the timestamp of the value
CacheEntry(key, timestamp) == [key |-> key, timestamp |-> timestamp]

\* audioCache.get(taskId) is truthy
cacheHas(cache, key) == \E k \in 1..Len(cache) : cache[k].key = key

\* audioCache.set(taskId, {..., timestamp}): a new key goes to the end, a
\* key already held keeps its place and takes the new value
cacheSet(cache, key, timestamp) ==
    IF cacheHas(cache, key)
    THEN [k \in 1..Len(cache) |->
            IF cache[k].key = key THEN CacheEntry(key, timestamp) ELSE cache[k]]
    ELSE Append(cache, CacheEntry(key, timestamp))

\* the sequence without its k-th element
removeAt(seq, k) ==
    [j \in 1..(Len(seq) - 1) |-> IF j < k THEN seq[j] ELSE seq[j + 1]]

\* the entry with the newest timestamp goes
oldestIsNewest(cache) ==
    CHOOSE k \in 1..Len(cache) :
        \A j \in 1..Len(cache) : cache[j].timestamp <= cache[k].timestamp

\* Array.from(entries()).sort((a, b) => a[1].timestamp - b[1].timestamp)[0]:
\* the sort is stable, so of the entries with the least timestamp the one
\* inserted first
oldest(cache) ==
    CHOOSE k \in 1..Len(cache) :
        /\ \A j \in 1..Len(cache) : cache[k].timestamp <= cache[j].timestamp
        /\ \A j \in 1..(k - 1) : cache[j].timestamp > cache[k].timestamp

\* if (audioCache.size > 10) audioCache.delete(oldest[0])
cleanOld(cache) ==
    IF Len(cache) > cacheLimit THEN removeAt(cache, oldest(cache)) ELSE cache

DetailsAnswers == {"PENDING", "SUCCESS_no_tracks", "SUCCESS", "throws"}
AudioAnswers == {"bytes", "empty", "not_ok", "throws"}
ImageAnswers == {"no_url", "ok", "not_ok", "throws"}

\* a status request: where its handler is, what it saw and what it answered
StatusRequest(pc, taskId, polled, audio, answer, fromCache, stored) ==
    [pc |-> pc, taskId |-> taskId, polled |-> polled, audio |-> audio,
     answer |-> answer, fromCache |-> fromCache, stored |-> stored]
NoStatusRequest == StatusRequest("free", 0, FALSE, NULL, NULL, FALSE, FALSE)
NoInsert == [key |-> 0, afterSet |-> <<>>, afterClean |-> <<>>]

cacheFrame ==
    UNCHANGED
        <<chatVars, dispatchVars, waitVars, requestVars, generateVars,
          workflowVars, identityVars, authVars, streamVars, limitVars,
          splitsVars, runVars, sessionVars, walletVars, uploadVars>>

\* the request arrives: answered from the cache, or getGenerationDetails is
\* called
StatusArrives(r) ==
    /\ c_req[r].pc = "free"
    /\ \E taskId \in StatusTaskIds :
         IF cacheHas(c_cache, taskId)
         THEN /\ c_req' = [c_req EXCEPT ![r] =
                    StatusRequest("answered", taskId, FALSE, NULL, "SUCCESS",
                                  TRUE, TRUE)]
              /\ UNCHANGED c_polls
         ELSE /\ c_req' = [c_req EXCEPT ![r] =
                    StatusRequest("details", taskId, TRUE, NULL, NULL, FALSE,
                                  FALSE)]
              /\ c_polls' = Min(c_polls + 1, MaxStatusRequests)
    /\ UNCHANGED <<c_cache, c_clock, c_insert>>
    /\ cacheFrame

\* getGenerationDetails settles
DetailsSettle(r) ==
    /\ c_req[r].pc = "details"
    /\ \E d \in DetailsAnswers :
         c_req' = [c_req EXCEPT ![r] =
            IF d = "SUCCESS" THEN [@ EXCEPT !.pc = "audio"]
            ELSE [@ EXCEPT !.pc = "answered",
                           !.answer = CASE d = "throws" -> "error"
                                        [] d = "PENDING" -> "PENDING"
                                        [] OTHER -> "SUCCESS"]]
    /\ UNCHANGED <<c_cache, c_clock, c_insert, c_polls>>
    /\ cacheFrame

\* audioCache.set, the cleaning and res.json run without an await between
insertAndAnswer(r) ==
    \E tick \in {0, 1} :
      LET afterSet == cacheSet(c_cache, c_req[r].taskId, c_clock + tick)
          afterClean == cleanOld(afterSet)
      IN /\ c_clock' = c_clock + tick
         /\ c_cache' = afterClean
         /\ c_insert' = [key |-> c_req[r].taskId, afterSet |-> afterSet,
                         afterClean |-> afterClean]
         /\ c_req' = [c_req EXCEPT ![r] =
                [@ EXCEPT !.pc = "answered", !.audio = "bytes",
                          !.answer = "SUCCESS",
                          !.stored = cacheHas(afterClean, c_req[r].taskId)]]

\* nothing is cached; the answer is SUCCESS with the tracks of the details
answerUncached(r, audio) ==
    /\ c_req' = [c_req EXCEPT ![r] =
           [@ EXCEPT !.pc = "answered", !.audio = audio, !.answer = "SUCCESS",
                     !.stored = cacheHas(c_cache, c_req[r].taskId)]]
    /\ UNCHANGED <<c_cache, c_clock, c_insert>>

\* the audio download settles (after the fallback to the stream URL on 403)
AudioSettle(r) ==
    /\ c_req[r].pc = "audio"
    /\ \E a \in AudioAnswers, hasImageUrl \in BOOLEAN :
         IF a = "bytes"
         THEN IF hasImageUrl
              THEN /\ c_req' = [c_req EXCEPT ![r] =
                         [@ EXCEPT !.pc = "image", !.audio = "bytes"]]
                   /\ UNCHANGED <<c_cache, c_clock, c_insert>>
              ELSE insertAndAnswer(r)
         ELSE answerUncached(r, a)
    /\ UNCHANGED c_polls
    /\ cacheFrame

\* the image download settles: a throw of fetch lands in the catch around the
\* whole caching block
ImageSettle(r) ==
    /\ c_req[r].pc = "image"
    /\ \E i \in ImageAnswers \ {"no_url"} :
         IF i = "throws" THEN answerUncached(r, "bytes")
         ELSE insertAndAnswer(r)
    /\ UNCHANGED c_polls
    /\ cacheFrame

CacheIdle ==
    /\ c_cache = <<>>
    /\ c_clock = 0
    /\ c_req = [r \in StatusSlots |-> NoStatusRequest]
    /\ c_insert = NoInsert
    /\ c_polls = 0

-----------------------------------------------------------------------------
(***************************************************************************)
(* The streaming branch of the chat handler (web/api/chat.ts 378-483) seen *)
(* through its event stream: every sendEvent, every start of callDistroApi *)
(* and res.end() is one entry of e_log, in the order the code runs them.   *)
(***************************************************************************)
\* an entry of the log; tool is <<round, index>> of the tool_use block, or
\* <<0, 0>>
LogEntry(kind, tool, text) == [kind |-> kind, tool |-> tool, text |-> text]
\* the event is written twice
sendEventTwice(log, event, tool, text) ==
    Append(Append(log, LogEntry(event, tool, text)), LogEntry(event, tool, text))

\* res.write(`event: ${event}\ndata: ${JSON.stringify(data)}\n\n`)
sendEvent(log, event, tool, text) == Append(log, LogEntry(event, tool, text))
NoTool == <<0, 0>>

\* what the event stream needs of an engine response: stop_reason, the joined
\* text (NULL: no text block), the number of tool_use blocks
StreamResponses ==
    [stop_reason : {"end_turn"}, text : Texts, tools : {0}]
    \cup [stop_reason : {"tool_use"}, text : {NULL, "t1"}, tools : 1..MaxToolUses]
NoStreamResponse == [stop_reason |-> NULL, text |-> NULL, tools |-> 0]

\* how a call of callDistroApi ends; its fetch has no timeout
ToolSettles == {"returns", "throws"}

streamFrame ==
    UNCHANGED
        <<chatVars, dispatchVars, waitVars, requestVars, generateVars,
          workflowVars, identityVars, authVars, cacheVars, limitVars,
          splitsVars, runVars, sessionVars, walletVars, uploadVars>>

\* no messages array: the 'error' event and res.end()
StreamMessagesRequired ==
    /\ e_pc = "start"
    /\ ~e_hasMessages
    /\ e_log' = Append(sendEvent(e_log, "error", NoTool, NULL),
                       LogEntry("end", NoTool, NULL))
    /\ e_pc' = "ended"
    /\ UNCHANGED <<e_hasMessages, e_response, e_round, e_next>>
    /\ streamFrame

\* the 'Thinking' status and the first engine call
StreamFirstEngineCall ==
    /\ e_pc = "start"
    /\ e_hasMessages
    /\ e_log' = sendEvent(e_log, "status", NoTool, NULL)
    /\ e_pc' = "engine"
    /\ UNCHANGED <<e_hasMessages, e_response, e_round, e_next>>
    /\ streamFrame

\* the engine answers: with tool_use blocks the loop body begins (the 'text'
\* event when the response has text), otherwise 'done' and res.end()
StreamEngineReturns ==
    /\ e_pc = "engine"
    /\ \E resp \in StreamResponses :
         /\ resp.stop_reason = "tool_use" => e_round < MaxRounds
         /\ e_response' = resp
         /\ IF resp.stop_reason = "tool_use"
            THEN /\ e_log' = IF resp.text # NULL
                             THEN sendEvent(e_log, "text", NoTool, resp.text)
                             ELSE e_log
                 /\ e_round' = e_round + 1
                 /\ e_next' = 1
                 /\ e_pc' = "tools"
            ELSE /\ e_log' = Append(sendEvent(e_log, "done", NoTool, resp.text),
                                    LogEntry("end", NoTool, NULL))
                 /\ e_pc' = "ended"
                 /\ UNCHANGED <<e_round, e_next>>
    /\ UNCHANGED e_hasMessages
    /\ streamFrame

\* anthropic.messages.create throws: the catch sends 'error' and ends
StreamEngineThrows ==
    /\ e_pc = "engine"
    /\ e_log' = Append(sendEvent(e_log, "error", NoTool, NULL),
                       LogEntry("end", NoTool, NULL))
    /\ e_pc' = "ended"
    /\ UNCHANGED <<e_hasMessages, e_response, e_round, e_next>>
    /\ streamFrame

\* the for loop reaches a tool_use block: its status event, then callDistroApi
StreamToolStarts ==
    /\ e_pc = "tools"
    /\ e_next <= e_response.tools
    /\ e_log' = Append(sendEvent(e_log, "status", <<e_round, e_next>>, NULL),
                       LogEntry("call", <<e_round, e_next>>, NULL))
    /\ e_pc' = "tool"
    /\ UNCHANGED <<e_hasMessages, e_response, e_round, e_next>>
    /\ streamFrame

\* callDistroApi returns or throws; the catch sends the 'failed' status
StreamToolSettles ==
    /\ e_pc = "tool"
    /\ \E how \in ToolSettles :
         e_log' = IF how = "throws"
                  THEN sendEvent(e_log, "status", <<e_round, e_next>>, NULL)
                  ELSE e_log
    /\ e_next' = e_next + 1
    /\ e_pc' = "tools"
    /\ UNCHANGED <<e_hasMessages, e_response, e_round>>
    /\ streamFrame

\* the fetch of callDistroApi never answers: the handler stays in the await
StreamToolHangs ==
    /\ e_pc = "tool"
    /\ e_pc' = "blocked"
    /\ UNCHANGED <<e_hasMessages, e_log, e_response, e_round, e_next>>
    /\ streamFrame

\* after the last block: the 'Processing results' status and the next engine
\* call
StreamContinue ==
    /\ e_pc = "tools"
    /\ e_next > e_response.tools
    /\ e_log' = sendEvent(e_log, "status", NoTool, NULL)
    /\ e_pc' = "engine"
    /\ UNCHANGED <<e_hasMessages, e_response, e_round, e_next>>
    /\ streamFrame

StreamIdle ==
    /\ e_pc = "idle"
    /\ e_hasMessages = FALSE
    /\ e_log = <<>>
    /\ e_response = NoStreamResponse
    /\ e_round = 0
    /\ e_next = 0

-----------------------------------------------------------------------------
(***************************************************************************)
(* The rate limits of the HTTP API: checkLimit of the compiled server      *)
(* (calendar day, 3 generations, 5 releases) and checkRateLimit of         *)
(* src/server.ts (in-memory window of 86400 s, 5 and 10).  The clock runs  *)
(* in half days.                                                           *)
(***************************************************************************)
MaxHalfDays == 3
MaxApiRequests == 6

dailyGenerations == 3
dailyReleases == 5
windowHalfDays == 2

Users == {"ip1", "ip2"}
LimitTypes == {"generations", "releases"}

\* new Date().toISOString().split('T')[0]
today(t) == t \div 2

\* const LIMITS = {generations: 3, releases: 5, ...}
LIMITS(type) == IF type = "generations" THEN 3 ELSE 5

\* const RATE_LIMITS = {generate: {limit: 5, ...}, release: {limit: 10, ...}}
RATE_LIMITS(type) == IF type = "generations" THEN 5 ELSE 10

Usage(count, date, resetAt) == [count |-> count, date |-> date, resetAt |-> resetAt]
NoUsage == Usage(0, -1, -1)

\* checkLimit(userId, type): the new tracker entry and whether it admits
checkLimit(usage, type, t) ==
    IF usage = NoUsage \/ usage.date # today(t)
    THEN [usage |-> Usage(1, today(t), -1), allowed |-> TRUE,
          remaining |-> LIMITS(type) - 1]
    ELSE IF usage.count >= LIMITS(type)
    THEN [usage |-> usage, allowed |-> FALSE, remaining |-> 0]
    ELSE [usage |-> [usage EXCEPT !.count = @ + 1], allowed |-> TRUE,
          remaining |-> LIMITS(type) - (usage.count + 1)]

Max(a, b) == IF a >= b THEN a ELSE b

\* the call that reaches the limit is refused already
checkRateLimitOneShort(usage, type, t) ==
    IF usage = NoUsage \/ usage.resetAt < t
    THEN [usage |-> Usage(1, -1, t + windowHalfDays), allowed |-> TRUE,
          remaining |-> RATE_LIMITS(type) - 1]
    ELSE [usage |-> [usage EXCEPT !.count = @ + 1],
          allowed |-> usage.count + 1 < RATE_LIMITS(type),
          remaining |-> Max(0, RATE_LIMITS(type) - (usage.count + 1))]

\* checkRateLimit(userId, type), the in-memory path
checkRateLimit(usage, type, t) ==
    IF usage = NoUsage \/ usage.resetAt < t
    THEN [usage |-> Usage(1, -1, t + windowHalfDays), allowed |-> TRUE,
          remaining |-> RATE_LIMITS(type) - 1]
    ELSE [usage |-> [usage EXCEPT !.count = @ + 1],
          allowed |-> usage.count + 1 <= RATE_LIMITS(type),
          remaining |-> Max(0, RATE_LIMITS(type) - (usage.count + 1))]

ApiAnswer(user, type, day, before, status, backend, remaining) ==
    [user |-> user, type |-> type, day |-> day, before |-> before,
     status |-> status, backend |-> backend, remaining |-> remaining]
NoApiAnswer == ApiAnswer(NULL, NULL, 0, 0, 0, FALSE, 0)

limitFrame ==
    UNCHANGED
        <<chatVars, dispatchVars, waitVars, requestVars, generateVars,
          workflowVars, identityVars, authVars, cacheVars, streamVars,
          splitsVars, runVars, sessionVars, walletVars, uploadVars>>

\* half a day passes
LimitTick ==
    /\ l_now < MaxHalfDays
    /\ l_now' = l_now + 1
    /\ l_admitted' = IF today(l_now + 1) # today(l_now)
                     THEN [u \in Users |-> [ty \in LimitTypes |-> 0]]
                     ELSE l_admitted
    /\ UNCHANGED <<l_server, l_usage, l_last, l_requests>>
    /\ limitFrame

\* a POST /api/generate or /api/release(-full) request of one user: 429 when
\* checkLimit refuses, otherwise the handler goes on to the backend
\* a route of the API: the limit is checked first; the compiled server then
\* answers 400 to a body without its required fields, before any backend
\* call
apiRequest(user, type, check, valid) ==
    /\ l_requests < MaxApiRequests
    /\ l_requests' = l_requests + 1
    /\ l_usage' = [l_usage EXCEPT ![user][type] = check.usage]
    /\ l_admitted' = IF check.allowed
                     THEN [l_admitted EXCEPT ![user][type] = @ + 1]
                     ELSE l_admitted
    /\ l_last' = ApiAnswer(user, type, today(l_now), l_admitted[user][type],
                           IF ~check.allowed THEN 429
                           ELSE IF ~valid THEN 400 ELSE 200,
                           check.allowed /\ valid, check.remaining)
    /\ UNCHANGED <<l_server, l_now>>
    /\ limitFrame

CompiledApiRequest ==
    /\ l_server = "compiled"
    /\ \E user \in Users, type \in LimitTypes, valid \in BOOLEAN :
         apiRequest(user, type, checkLimit(l_usage[user][type], type, l_now),
                    valid)

ServerTsApiRequest ==
    /\ l_server = "server_ts"
    /\ \E user \in Users, type \in LimitTypes :
         apiRequest(user, type, checkRateLimit(l_usage[user][type], type, l_now),
                    TRUE)

LimitIdle ==
    /\ l_server = "compiled"
    /\ l_now = 0
    /\ l_usage = [u \in Users |-> [ty \in LimitTypes |-> NoUsage]]
    /\ l_admitted = [u \in Users |-> [ty \in LimitTypes |-> 0]]
    /\ l_last = NoApiAnswer
    /\ l_requests = 0

-----------------------------------------------------------------------------
(***************************************************************************)
(* The set_splits tool of the MCP server (src/index.ts) with setMockSplits *)
(* (mocks/mock-data.ts).  Percentages are in thousandths of a percent.     *)
(***************************************************************************)
MaxSplits == 2

hundredPercent == 100000
toleranceThousandths == 10

\* percentages a caller may give: 0, 40, 60, 99.995, 100, 100.001
Percentages == {0, 40000, 60000, 99995, 100000, 100001}
Splits == [percentage : Percentages, emailOk : BOOLEAN]
SplitLists == UNION {[1..n -> Splits] : n \in 0..MaxSplits}

\* splits.reduce((sum, s) => sum + s.percentage, 0)
RECURSIVE totalPercentage(_)
totalPercentage(splits) ==
    IF splits = <<>> THEN 0
    ELSE splits[1].percentage + totalPercentage(Tail(splits))

\* setSplitsSchema.parse: every percentage within 0..100 and every
\* collaboratorEmail an e-mail address; no rule on the total
setSplitsSchemaAccepts(splits) ==
    \A k \in 1..Len(splits) :
        /\ splits[k].emailOk
        /\ splits[k].percentage >= 0
        /\ splits[k].percentage <= hundredPercent

\* Math.abs(totalPercentage - 100) > 0.01
offTotal(total) ==
    (IF total >= hundredPercent THEN total - hundredPercent
     ELSE hundredPercent - total) > toleranceThousandths

\* setMockSplits: 'pending_approval' with a warning, or 'active'
setMockSplits(splits) ==
    IF offTotal(totalPercentage(splits)) THEN "pending_approval" ELSE "active"

SplitsResult(isError, status, mock) ==
    [isError |-> isError, status |-> status, mock |-> mock]
NoSplitsResult == SplitsResult(FALSE, NULL, FALSE)
NotSent == [put |-> FALSE, splits |-> <<>>]

splitsFrame ==
    UNCHANGED
        <<chatVars, dispatchVars, waitVars, requestVars, generateVars,
          workflowVars, identityVars, authVars, cacheVars, streamVars,
          limitVars, runVars, sessionVars, walletVars, uploadVars>>

\* setSplitsSchema.parse throws: the catch of the call handler answers with
\* isError
SetSplitsInvalid ==
    /\ p_pc = "called"
    /\ ~setSplitsSchemaAccepts(p_splits)
    /\ p_result' = SplitsResult(TRUE, NULL, FALSE)
    /\ p_pc' = "answered"
    /\ UNCHANGED <<p_live, p_splits, p_sent>>
    /\ splitsFrame

\* with a dittoClient the list goes to PUT .../royalty-splits as it is and
\* the answer of the backend is returned
SetSplitsLive ==
    /\ p_pc = "called"
    /\ setSplitsSchemaAccepts(p_splits)
    /\ p_live
    /\ p_sent' = [put |-> TRUE, splits |-> p_splits]
    /\ \E answer \in {"active", "pending_approval", "throws"} :
         p_result' = IF answer = "throws" THEN SplitsResult(TRUE, NULL, FALSE)
                     ELSE SplitsResult(FALSE, answer, FALSE)
    /\ p_pc' = "answered"
    /\ UNCHANGED <<p_live, p_splits>>
    /\ splitsFrame

\* without a dittoClient the answer comes from setMockSplits, with _mock
SetSplitsMock ==
    /\ p_pc = "called"
    /\ setSplitsSchemaAccepts(p_splits)
    /\ ~p_live
    /\ p_result' = SplitsResult(FALSE, setMockSplits(p_splits), TRUE)
    /\ p_pc' = "answered"
    /\ UNCHANGED <<p_live, p_splits, p_sent>>
    /\ splitsFrame

SplitsIdle ==
    /\ p_pc = "idle"
    /\ p_live = FALSE
    /\ p_splits = <<>>
    /\ p_sent = NotSent
    /\ p_result = NoSplitsResult

-----------------------------------------------------------------------------
(***************************************************************************)
(* The release_ai_track tool (src/index.ts 1099-1318) call by call, for two *)
(* runs that may overlap: each await of a backend call is one step of its  *)
(* run.  Step 3b (the royalty wallet) calls neither backend and never      *)
(* throws; it is left out.                                                 *)
(***************************************************************************)
Runs == {1, 2}

\* validated.artistName of the two runs: one name in two spellings
runArtistName(r) == IF r = 1 THEN "Nova" ELSE "nova"

DspLists == {<<>>, <<"spotify">>, <<"tidal">>, <<"spotify", "tidal">>}
StoreSets == {{}, {"spotify"}, {"spotify", "tidal"}}

\* validated.artworkPrompt given, validated.dsps
RunOptions == [artworkPrompt : BOOLEAN, dsps : DspLists]

\* the backend calls of the tool in the order of the code
CallOrder ==
    <<"generateMusic", "waitForCompletion", "getArtists", "createArtist",
      "createRelease", "createTrackWithAudio", "generateArtwork", "getStores",
      "submitToStores">>
callRank(call) == CHOOSE k \in 1..Len(CallOrder) : CallOrder[k] = call

\* the ids of tasks, releases and tracks start above the artist ids
firstBackendId == Len(CallOrder) + 1

\* a backend call of a run: the id it passed, the id it got, whether it
\* returned
Call(call, passed, returned, ok) ==
    [call |-> call, passed |-> passed, returned |-> returned, ok |-> ok]

\* dspsSubmitted: validated.dsps || []
dspsSubmitted(dsps, submitted) == dsps

RunResult(answered, success, dsps) ==
    [answered |-> answered, success |-> success, dspsSubmitted |-> dsps]
NoRunResult == RunResult(FALSE, FALSE, <<>>)

Run(pc, opts) ==
    [pc |-> pc, opts |-> opts, taskId |-> 0, artistId |-> 0, releaseId |-> 0,
     trackId |-> 0, storeIds |-> {}, submitted |-> FALSE, calls |-> <<>>,
     result |-> NoRunResult]
NoRun == Run("idle", [artworkPrompt |-> FALSE, dsps |-> <<>>])

\* the createRelease call comes after the track
stepAfterTrackFirst(pc, opts) ==
    CASE pc = "generateMusic" -> "waitForCompletion"
      [] pc = "waitForCompletion" -> "getArtists"
      [] pc \in {"getArtists", "createArtist"} -> "createTrackWithAudio"
      [] pc = "createTrackWithAudio" -> "createRelease"
      [] pc = "createRelease" ->
            IF opts.artworkPrompt THEN "generateArtwork"
            ELSE IF opts.dsps # <<>> THEN "getStores" ELSE "finish"
      [] pc = "generateArtwork" ->
            IF opts.dsps # <<>> THEN "getStores" ELSE "finish"
      [] OTHER -> "finish"

\* the statement that follows the successful call `pc` in the try block
stepAfter(pc, opts) ==
    CASE pc = "generateMusic" -> "waitForCompletion"
      [] pc = "waitForCompletion" -> "getArtists"
      [] pc \in {"getArtists", "createArtist"} -> "createRelease"
      [] pc = "createRelease" -> "createTrackWithAudio"
      [] pc = "createTrackWithAudio" ->
            IF opts.artworkPrompt THEN "generateArtwork"
            ELSE IF opts.dsps # <<>> THEN "getStores" ELSE "finish"
      [] pc = "generateArtwork" ->
            IF opts.dsps # <<>> THEN "getStores" ELSE "finish"
      [] OTHER -> "finish"

runFrame ==
    UNCHANGED
        <<chatVars, dispatchVars, waitVars, requestVars, generateVars,
          workflowVars, identityVars, authVars, cacheVars, streamVars,
          limitVars, splitsVars, sessionVars, walletVars, uploadVars>>

\* the call at `pc` throws: the outer catch answers success: false
runThrows(r, passed) ==
    r_run' = [r_run EXCEPT ![r] =
        [@ EXCEPT !.calls = Append(@, Call(r_run[r].pc, passed, 0, FALSE)),
                  !.pc = "answered",
                  !.result = RunResult(TRUE, FALSE, <<>>)]]

\* the second run is called while the first may still be running
RunCalled ==
    /\ r_run[2].pc = "idle"
    /\ r_run' = [r_run EXCEPT ![2] = [@ EXCEPT !.pc = "generateMusic"]]
    /\ UNCHANGED <<r_artists, r_stores, r_storeMapping, r_nextId>>
    /\ runFrame

\* steps 1 and 2: sunoClient.generateMusic, then waitForCompletion, which
\* throws or returns with or without a track
RunGenerates(r) ==
    /\ r_run[r].pc \in {"generateMusic", "waitForCompletion"}
    /\ \E ok \in BOOLEAN :
         IF ok
         THEN /\ r_run' = [r_run EXCEPT ![r] =
                    [@ EXCEPT !.calls = Append(@, Call(r_run[r].pc,
                                    r_run[r].taskId,
                                    IF r_run[r].pc = "generateMusic"
                                    THEN r_nextId ELSE r_run[r].taskId, TRUE)),
                              !.taskId = IF r_run[r].pc = "generateMusic"
                                         THEN r_nextId ELSE @,
                              !.pc = stepAfter(r_run[r].pc, r_run[r].opts)]]
              /\ r_nextId' = IF r_run[r].pc = "generateMusic"
                             THEN r_nextId + 1 ELSE r_nextId
         ELSE /\ runThrows(r, r_run[r].taskId)
              /\ UNCHANGED r_nextId
    /\ UNCHANGED <<r_artists, r_stores, r_storeMapping>>
    /\ runFrame

\* step 3, first half: getArtists and the search of the list
RunListsArtists(r) ==
    /\ r_run[r].pc = "getArtists"
    /\ \E ok \in BOOLEAN :
         IF ok
         THEN LET k == find(r_artists, runArtistName(r)) IN
              r_run' = [r_run EXCEPT ![r] =
                 IF k # 0
                 THEN [@ EXCEPT !.calls = Append(@, Call("getArtists", 0,
                                                r_artists[k].id, TRUE)),
                                !.artistId = r_artists[k].id,
                                !.pc = stepAfter("getArtists", r_run[r].opts)]
                 ELSE [@ EXCEPT !.calls = Append(@, Call("getArtists", 0, 0, TRUE)),
                                !.pc = "createArtist"]]
         ELSE runThrows(r, 0)
    /\ UNCHANGED <<r_artists, r_stores, r_storeMapping, r_nextId>>
    /\ runFrame

\* step 3, second half: createArtist when the list held no such name
RunCreatesArtist(r) ==
    /\ r_run[r].pc = "createArtist"
    /\ \E ok \in BOOLEAN :
         IF ok
         THEN /\ r_artists' = Append(r_artists,
                    Artist(nextArtistId(r_artists), runArtistName(r)))
              /\ r_run' = [r_run EXCEPT ![r] =
                    [@ EXCEPT !.calls = Append(@, Call("createArtist", 0,
                                            nextArtistId(r_artists), TRUE)),
                              !.artistId = nextArtistId(r_artists),
                              !.pc = stepAfter("createArtist", r_run[r].opts)]]
         ELSE /\ runThrows(r, 0)
              /\ UNCHANGED r_artists
    /\ UNCHANGED <<r_stores, r_storeMapping, r_nextId>>
    /\ runFrame

\* step 4: createRelease({artistId: artistIri, ...})
RunCreatesRelease(r) ==
    /\ r_run[r].pc = "createRelease"
    /\ \E ok \in BOOLEAN :
         IF ok
         THEN /\ r_run' = [r_run EXCEPT ![r] =
                    [@ EXCEPT !.calls = Append(@, Call("createRelease",
                                            r_run[r].artistId, r_nextId, TRUE)),
                              !.releaseId = r_nextId,
                              !.pc = stepAfter("createRelease", r_run[r].opts)]]
              /\ r_nextId' = r_nextId + 1
         ELSE /\ runThrows(r, r_run[r].artistId)
              /\ UNCHANGED r_nextId
    /\ UNCHANGED <<r_artists, r_stores, r_storeMapping>>
    /\ runFrame

\* step 5: createTrackWithAudio(releaseId, generatedTrack.audioUrl, ...)
RunCreatesTrack(r) ==
    /\ r_run[r].pc = "createTrackWithAudio"
    /\ \E ok \in BOOLEAN :
         IF ok
         THEN /\ r_run' = [r_run EXCEPT ![r] =
                    [@ EXCEPT !.calls = Append(@, Call("createTrackWithAudio",
                                            r_run[r].releaseId, r_nextId, TRUE)),
                              !.trackId = r_nextId,
                              !.pc = stepAfter("createTrackWithAudio",
                                               r_run[r].opts)]]
              /\ r_nextId' = r_nextId + 1
         ELSE /\ runThrows(r, r_run[r].releaseId)
              /\ UNCHANGED r_nextId
    /\ UNCHANGED <<r_artists, r_stores, r_storeMapping>>
    /\ runFrame

\* step 5b: generateArtwork(releaseId, artworkPrompt) in its own try: a
\* failure is noted in the steps and the run goes on
RunGeneratesArtwork(r) ==
    /\ r_run[r].pc = "generateArtwork"
    /\ \E ok \in BOOLEAN :
         r_run' = [r_run EXCEPT ![r] =
            [@ EXCEPT !.calls = Append(@, Call("generateArtwork",
                                    r_run[r].releaseId, 0, ok)),
                      !.pc = stepAfter("generateArtwork", r_run[r].opts)]]
    /\ UNCHANGED <<r_artists, r_stores, r_storeMapping, r_nextId>>
    /\ runFrame

\* step 6, the loop over validated.dsps: getStoreId loads the store mapping
\* on first use (a failure leaves it unloaded and yields null) and looks the
\* platform up
RunResolvesStores(r) ==
    /\ r_run[r].pc = "getStores"
    /\ \E loads \in BOOLEAN :
         LET loaded == r_storeMapping \/ loads
             dsps == r_run[r].opts.dsps
             storeIds == IF loaded
                         THEN {dsps[k] : k \in 1..Len(dsps)} \cap r_stores
                         ELSE {}
         IN /\ r_storeMapping' = loaded
            /\ r_run' = [r_run EXCEPT ![r] =
                  [@ EXCEPT !.calls = IF r_storeMapping THEN @
                                      ELSE Append(@, Call("getStores", 0, 0, loads)),
                            !.storeIds = storeIds,
                            !.pc = IF storeIds # {} THEN "submitToStores"
                                   ELSE "finish"]]
    /\ UNCHANGED <<r_artists, r_stores, r_nextId>>
    /\ runFrame

\* step 6: submitToStores(releaseId, storeIds)
RunSubmits(r) ==
    /\ r_run[r].pc = "submitToStores"
    /\ \E ok \in BOOLEAN :
         IF ok
         THEN r_run' = [r_run EXCEPT ![r] =
                 [@ EXCEPT !.calls = Append(@, Call("submitToStores",
                                         r_run[r].releaseId, 0, TRUE)),
                           !.submitted = TRUE,
                           !.pc = "finish"]]
         ELSE runThrows(r, r_run[r].releaseId)
    /\ UNCHANGED <<r_artists, r_stores, r_storeMapping, r_nextId>>
    /\ runFrame

\* the return of the try block: success: true with the summary
RunReturns(r) ==
    /\ r_run[r].pc = "finish"
    /\ r_run' = [r_run EXCEPT ![r] =
          [@ EXCEPT !.pc = "answered",
                    !.result = RunResult(TRUE, TRUE,
                        dspsSubmitted(r_run[r].opts.dsps, r_run[r].submitted))]]
    /\ UNCHANGED <<r_artists, r_stores, r_storeMapping, r_nextId>>
    /\ runFrame

RunIdle ==
    /\ r_run = [r \in Runs |-> NoRun]
    /\ r_artists = <<>>
    /\ r_stores = {}
    /\ r_storeMapping = FALSE
    /\ r_nextId = firstBackendId

-----------------------------------------------------------------------------
(***************************************************************************)
(* Several calls of request() on one DittoClient (src/ditto-client.ts      *)
(* 138-171), each of which awaits authenticate() (66-136).  A call gives   *)
(* way at each await of a fetch; this.auth is the only state the calls     *)
(* share.  The clock stands still at sessionNow while the calls overlap.   *)
(***************************************************************************)
SessionCalls == {1, 2, 3}
sessionNow == expiryMin + bufferMin

sessionFrame ==
    UNCHANGED
        <<chatVars, dispatchVars, waitVars, requestVars, generateVars,
          workflowVars, identityVars, authVars, cacheVars, streamVars,
          limitVars, splitsVars, runVars, walletVars, uploadVars>>

\* the synchronous head of authenticate: the cached token, else the refresh
\* exchange, else the login; what other calls are doing is not looked at
loginStart(auth) ==
    IF tokenStillValid(auth, sessionNow) THEN "holds"
    ELSE IF holdsRefreshToken(auth) THEN "refresh"
    ELSE "primary"

\* request() is called: authenticate runs up to its first await
SessionCallStarts(c) ==
    /\ n_pc[c] = "ready"
    /\ n_pc' = [n_pc EXCEPT ![c] = loginStart(n_auth)]
    /\ n_held' = [n_held EXCEPT ![c] =
                     IF tokenStillValid(n_auth, sessionNow) THEN n_auth.token
                     ELSE @]
    /\ n_cold' = IF tokenStillValid(n_auth, sessionNow) THEN n_cold
                 ELSE n_cold \cup {c}
    /\ UNCHANGED <<n_auth, n_issued>>
    /\ sessionFrame

\* an exchange of call c settles with answer `next`: a token is stored in
\* this.auth and returned, or the call goes on, throws, or never resumes
sessionSettles(c, next, refreshToken) ==
    /\ n_pc' = [n_pc EXCEPT ![c] = IF next = "token" THEN "holds" ELSE next]
    /\ n_held' = [n_held EXCEPT ![c] = IF next = "token" THEN n_issued + 1 ELSE @]
    /\ n_auth' = IF next = "token"
                 THEN AuthToken(n_issued + 1, refreshToken,
                                sessionNow + expiryMin)
                 ELSE n_auth
    /\ n_issued' = IF next = "token" THEN n_issued + 1 ELSE n_issued
    /\ UNCHANGED n_cold
    /\ sessionFrame

\* POST /api/token/refresh of call c settles; a failure goes on to the login
SessionRefreshSettles(c) ==
    /\ n_pc[c] = "refresh"
    /\ \E o \in FetchOutcomes :
         sessionSettles(c, IF afterRefresh(o) = "login" THEN "primary"
                           ELSE afterRefresh(o), TRUE)

\* POST /authentication_token of call c settles
SessionPrimarySettles(c) ==
    /\ n_pc[c] = "primary"
    /\ \E o \in FetchOutcomes, refreshes \in BOOLEAN :
         sessionSettles(c, afterPrimary(o), refreshes)

\* POST /api/login of call c settles
SessionSecondarySettles(c) ==
    /\ n_pc[c] = "secondary"
    /\ \E o \in FetchOutcomes, refreshes \in BOOLEAN :
         sessionSettles(c, afterSecondary(o), refreshes)

\* request() sends its fetch with Authorization: Bearer <the token returned>
SessionRequestSent(c) ==
    /\ n_pc[c] = "holds"
    /\ n_pc' = [n_pc EXCEPT ![c] = "sent"]
    /\ UNCHANGED <<n_held, n_cold, n_auth, n_issued>>
    /\ sessionFrame

SessionIdle ==
    /\ n_pc = [c \in SessionCalls |-> "idle"]
    /\ n_held = [c \in SessionCalls |-> 0]
    /\ n_cold = {}
    /\ n_auth = NoAuth
    /\ n_issued = 0

-----------------------------------------------------------------------------
(***************************************************************************)
(* getOrCreateArtistWallet (src/ditto-client.ts 755-794) with loadWallets  *)
(* and saveWallets (719-749), for two calls that may overlap.  A call runs *)
(* without interruption up to `await privy.walletApi.create` and again     *)
(* from the answer of the wallet API to its return.  The file is read and  *)
(* written whole; a failing read or write of the file is not modelled.     *)
(***************************************************************************)
WalletCalls == {1, 2}
WalletNames == {"Nova", " nova", "Echo"}
WalletKeys == {"nova", "echo"}

\* artistName.toLowerCase().trim()
walletKey(name) == IF name = "Echo" THEN "echo" ELSE "nova"

NoWallets == [k \in WalletKeys |-> 0]

walletFrame ==
    UNCHANGED
        <<chatVars, dispatchVars, waitVars, requestVars, generateVars,
          workflowVars, identityVars, authVars, cacheVars, streamVars,
          limitVars, splitsVars, runVars, sessionVars, uploadVars>>

\* lines 756-770: loadWallets, the lookup of the key, getPrivyClient, and the
\* start of the create call
WalletLoads(c) ==
    /\ k_pc[c] = "called"
    /\ k_wallets' = [k_wallets EXCEPT ![c] = k_file]
    /\ LET found == k_file[walletKey(k_name[c])] IN
         /\ k_pc' = [k_pc EXCEPT ![c] =
                        IF found # 0 THEN "existing"
                        ELSE IF ~k_privy THEN "skipped"
                        ELSE "creating"]
         /\ k_result' = [k_result EXCEPT ![c] = found]
    /\ UNCHANGED <<k_name, k_file, k_privy, k_created>>
    /\ walletFrame

\* lines 777-788: the wallet API answers; wallets[key] is set in the object
\* loaded at the start and saveWallets writes that object over the file
WalletCreates(c) ==
    /\ k_pc[c] = "creating"
    /\ LET address == k_created + 1
           wallets == [k_wallets[c] EXCEPT ![walletKey(k_name[c])] = address]
       IN /\ k_wallets' = [k_wallets EXCEPT ![c] = wallets]
          /\ k_file' = wallets
          /\ k_result' = [k_result EXCEPT ![c] = address]
          /\ k_created' = address
    /\ k_pc' = [k_pc EXCEPT ![c] = "created"]
    /\ UNCHANGED <<k_name, k_privy>>
    /\ walletFrame

\* lines 789-792: the create call throws; the catch returns null
WalletCreateFails(c) ==
    /\ k_pc[c] = "creating"
    /\ k_pc' = [k_pc EXCEPT ![c] = "failed"]
    /\ UNCHANGED <<k_name, k_wallets, k_result, k_file, k_privy, k_created>>
    /\ walletFrame

WalletIdle ==
    /\ k_pc = [c \in WalletCalls |-> "idle"]
    /\ k_name = [c \in WalletCalls |-> "Nova"]
    /\ k_wallets = [c \in WalletCalls |-> NoWallets]
    /\ k_result = [c \in WalletCalls |-> 0]
    /\ k_file = NoWallets
    /\ k_privy = FALSE
    /\ k_created = 0

-----------------------------------------------------------------------------
(***************************************************************************)
(* POST /api/upload-track of the HTTP server (compiled server 576-639 and  *)
(* its nameless copy 305-368).  The audio of a cache entry is the audio of *)
(* the generation task the entry is stored under; an audio URL points at   *)
(* the audio of one task.                                                  *)
(***************************************************************************)
UploadTasks == {1, 2}

\* audioUrl: absent, or the URL of a task's audio, with or without a path
\* segment of 20 or more base64 characters before a dot
NoUrl == [given |-> FALSE, task |-> 0, longSegment |-> FALSE]
UploadUrls ==
    {NoUrl} \cup [given : {TRUE}, task : UploadTasks, longSegment : BOOLEAN]

\* req.body: releaseId and title given, taskId (0 for none), audioUrl
UploadBodies ==
    [complete : BOOLEAN, taskId : {0} \cup UploadTasks, audioUrl : UploadUrls]

\* an entry of audioCache: the key and whether its audio string is non-empty
AudioEntry(key, audio) == [key |-> key, audio |-> audio]
UploadCaches ==
    {<<>>}
    \cup {<<AudioEntry(t, a)>> : t \in UploadTasks, a \in BOOLEAN}
    \cup {<<AudioEntry(tt[1], a1), AudioEntry(tt[2], a2)>> :
            tt \in {p \in UploadTasks \X UploadTasks : p[1] # p[2]},
            a1 \in BOOLEAN, a2 \in BOOLEAN}

\* audioBuffer: no bytes, bytes of a cache entry, or downloaded bytes
Audio(from, task) == [from |-> from, task |-> task]
NoAudio == Audio("none", 0)

\* audioUrl.match(/\/([A-Za-z0-9+/=]{20,})\./)
urlMatch(url) == url.longSegment

\* the first entry of the cache with a non-empty audio string, 0 for none
firstWithAudio(cache) ==
    IF \E k \in 1..Len(cache) : cache[k].audio
    THEN CHOOSE k \in 1..Len(cache) :
            cache[k].audio /\ \A j \in 1..(k - 1) : ~cache[j].audio
    ELSE 0

\* lines 585-605: the entry under taskId if there is one; else, for an
\* audioUrl with a long segment, the first cache entry that has audio
cachedAudio(cache, body) ==
    IF body.taskId # 0 /\ cacheHas(cache, body.taskId)
    THEN LET k == CHOOSE j \in 1..Len(cache) : cache[j].key = body.taskId
         IN IF cache[k].audio THEN Audio("cache", cache[k].key) ELSE NoAudio
    ELSE IF body.audioUrl.given /\ urlMatch(body.audioUrl)
              /\ firstWithAudio(cache) # 0
    THEN Audio("cache", cache[firstWithAudio(cache)].key)
    ELSE NoAudio

\* the download at 607-625 is tried in the else-if branch only
downloads(cache, body) ==
    /\ ~(body.taskId # 0 /\ cacheHas(cache, body.taskId))
    /\ body.audioUrl.given
    /\ cachedAudio(cache, body) = NoAudio

uploadFrame ==
    UNCHANGED <<chatVars, dispatchVars, waitVars, requestVars, generateVars,
                workflowVars, identityVars, authVars, cacheVars, streamVars,
                limitVars, splitsVars, runVars, sessionVars, walletVars>>

\* releaseId or title missing: 400
UploadRefused ==
    /\ u_pc = "posted"
    /\ ~u_body.complete
    /\ u_pc' = "answered"
    /\ u_answer' = 400
    /\ UNCHANGED <<u_body, u_cache, u_buffer, u_uploaded>>
    /\ uploadFrame

\* the handler up to its first await: the cache lookup, then the upload, the
\* download, or 400 'Could not get audio'
UploadLooksUp ==
    /\ u_pc = "posted"
    /\ u_body.complete
    /\ u_buffer' = cachedAudio(u_cache, u_body)
    /\ u_pc' = IF cachedAudio(u_cache, u_body) # NoAudio THEN "uploading"
               ELSE IF downloads(u_cache, u_body) THEN "downloading"
               ELSE "answered"
    /\ u_answer' = IF cachedAudio(u_cache, u_body) = NoAudio
                      /\ ~downloads(u_cache, u_body)
                   THEN 400 ELSE u_answer
    /\ UNCHANGED <<u_body, u_cache, u_uploaded>>
    /\ uploadFrame

\* fetch(audioUrl), with the retry on the URL without '.mp3' after a 403:
\* bytes of the request's URL, or nothing (not OK, empty, thrown)
UploadDownloadSettles ==
    /\ u_pc = "downloading"
    /\ \E bytes \in BOOLEAN :
         /\ u_buffer' = IF bytes THEN Audio("download", u_body.audioUrl.task)
                        ELSE NoAudio
         /\ u_pc' = IF bytes THEN "uploading" ELSE "answered"
         /\ u_answer' = IF bytes THEN u_answer ELSE 400
    /\ UNCHANGED <<u_body, u_cache, u_uploaded>>
    /\ uploadFrame

\* dittoClient.createTrackWithAudioBuffer(cleanReleaseId, audioBuffer, ...):
\* success: true, or the error answer of asyncHandler
UploadSends ==
    /\ u_pc = "uploading"
    /\ u_uploaded' = u_buffer
    /\ \E ok \in BOOLEAN : u_answer' = IF ok THEN 200 ELSE 500
    /\ u_pc' = "answered"
    /\ UNCHANGED <<u_body, u_cache, u_buffer>>
    /\ uploadFrame

UploadIdle ==
    /\ u_pc = "idle"
    /\ u_body = [complete |-> FALSE, taskId |-> 0, audioUrl |-> NoUrl]
    /\ u_cache = <<>>
    /\ u_buffer = NoAudio
    /\ u_uploaded = NoAudio
    /\ u_answer = 0

ChatIdle ==
    /\ chat_pc = "idle"
    /\ req = [method |-> "POST", wantsStream |-> FALSE, hasMessagesArray |-> FALSE,
              messages |-> <<[role |-> "user", round |-> 0, idx |-> 1]>>]
    /\ anthropicMessages = <<>>
    /\ response = NoResponse
    /\ toolResults = <<>>
    /\ generationTaskId = NULL
    /\ sent = <<>>
    /\ outcome = NoOutcome
    /\ rounds = 0
    /\ engineCalls = 0
    /\ threwLog = <<>>
    /\ toolFailed = FALSE
    /\ engineFailed = FALSE
    /\ lastStarted = NULL

Init ==
    /\ ChatInit /\ DispatchIdle /\ WaitIdle /\ RequestIdle /\ GenerateIdle
    /\ WorkflowIdle /\ IdentityIdle /\ AuthIdle /\ CacheIdle /\ StreamIdle
    /\ LimitIdle /\ SplitsIdle /\ RunIdle /\ SessionIdle /\ WalletIdle /\ UploadIdle

Next ==
    \/ Preflight
    \/ MethodNotAllowed
    \/ MessagesRequired
    \/ FirstEngineCall
    \/ EngineReturns
    \/ EngineThrows
    \/ ExecTool
    \/ ContinueConversation

Spec == Init /\ [][Next]_vars

\* one tool invocation handed to one of the dispatchers
DispatchInit ==
    /\ ChatIdle
    /\ UploadIdle
    /\ WalletIdle
    /\ SessionIdle
    /\ RunIdle
    /\ SplitsIdle
    /\ LimitIdle
    /\ StreamIdle
    /\ CacheIdle
    /\ AuthIdle
    /\ IdentityIdle
    /\ WaitIdle
    /\ RequestIdle
    /\ GenerateIdle
    /\ WorkflowIdle
    /\ d_pc = "ready"
    /\ d_call \in DispatchCalls
    /\ d_result = NoDispatchResult

DispatchNext ==
    \/ McpServerCallTool
    \/ ThinClientCallTool
    \/ ChatCallTool

DispatchSpec == DispatchInit /\ [][DispatchNext]_vars

\* one call of waitForCompletion(taskId) with the default arguments
WaitInit ==
    /\ ChatIdle
    /\ UploadIdle
    /\ WalletIdle
    /\ SessionIdle
    /\ RunIdle
    /\ SplitsIdle
    /\ LimitIdle
    /\ StreamIdle
    /\ CacheIdle
    /\ AuthIdle
    /\ IdentityIdle
    /\ DispatchIdle
    /\ RequestIdle
    /\ GenerateIdle
    /\ WorkflowIdle
    /\ w_pc = "called"
    /\ now = timeoutS
    /\ startTime = 0
    /\ pollCount = 0
    /\ consecutiveErrors = 0
    /\ details = NoPoll
    /\ failureSeen = FALSE
    /\ onlyNetErrors = TRUE
    /\ scenario = 0
    /\ slept = 0
    /\ edition \in Editions

WaitNext ==
    \/ WaitStart
    \/ Poll
    \/ Sleep
    \/ ReturnDetails
    \/ TimeOut

WaitSpec == WaitInit /\ [][WaitNext]_vars

\* one request of one of the adapters
RequestInit ==
    /\ ChatIdle
    /\ UploadIdle
    /\ WalletIdle
    /\ SessionIdle
    /\ RunIdle
    /\ SplitsIdle
    /\ LimitIdle
    /\ StreamIdle
    /\ CacheIdle
    /\ AuthIdle
    /\ IdentityIdle
    /\ DispatchIdle
    /\ WaitIdle
    /\ GenerateIdle
    /\ WorkflowIdle
    /\ q_client \in Clients
    /\ q_auth \in (IF q_client = "ditto" THEN AuthStates ELSE {"none"})
    /\ q_pc = IF q_client = "ditto" THEN "auth" ELSE "attempt"
    /\ attempt = 1
    /\ q_sent = 0
    /\ q_authSent = 0
    /\ q_waits = <<>>
    /\ q_last = NULL
    /\ q_elapsed = 0

RequestNext ==
    \/ SunoAttempt
    \/ SunoBackoff
    \/ DittoAuthenticate
    \/ DittoFetch
    \/ ChatFetch

RequestSpec == RequestInit /\ [][RequestNext]_vars

\* one POST /api/generate: from the generate_music tool of the chat handler
\* (wait: false) or from another caller of the route
GenerateInit ==
    /\ ChatIdle
    /\ UploadIdle
    /\ WalletIdle
    /\ SessionIdle
    /\ RunIdle
    /\ SplitsIdle
    /\ LimitIdle
    /\ StreamIdle
    /\ CacheIdle
    /\ AuthIdle
    /\ IdentityIdle
    /\ DispatchIdle
    /\ WaitIdle
    /\ RequestIdle
    /\ WorkflowIdle
    /\ g_pc = "posted"
    /\ g_server \in Servers
    /\ g_body \in GenerateBodies
    /\ g_submissions = 0
    /\ g_polls = 0
    /\ g_answer = NoGenAnswer
    /\ g_result = NoGenResult

GenerateNext ==
    \/ GenerateRefused
    \/ GenerateSubmit
    \/ GeneratePoll
    \/ GenerateWaitThrows
    \/ GenerateReturns

GenerateSpec == GenerateInit /\ [][GenerateNext]_vars

\* one run of one of the workflows
WorkflowInit ==
    /\ ChatIdle
    /\ UploadIdle
    /\ WalletIdle
    /\ SessionIdle
    /\ RunIdle
    /\ SplitsIdle
    /\ LimitIdle
    /\ StreamIdle
    /\ CacheIdle
    /\ AuthIdle
    /\ IdentityIdle
    /\ DispatchIdle
    /\ WaitIdle
    /\ RequestIdle
    /\ GenerateIdle
    /\ f_pc = StepOrder[1]
    /\ f_flow \in Flows
    /\ f_opts \in FlowOptions
    /\ f_calls = <<>>
    /\ f_failed = {}
    /\ f_logged = {}
    /\ f_result = NoFlowResult

WorkflowNext ==
    \/ StepSucceeds
    \/ StepFails
    \/ StepSkipped
    \/ WorkflowReturns

WorkflowSpec == WorkflowInit /\ [][WorkflowNext]_vars

\* up to MaxRuns runs of one workflow against a backend that holds no artist,
\* one artist, or an artist without a name
InitialArtists ==
    {<<>>} \cup {<<Artist(1, n)>> : n \in {"Nova", "nova", "Echo", NULL}}

IdentityInit ==
    /\ ChatIdle
    /\ UploadIdle
    /\ WalletIdle
    /\ SessionIdle
    /\ RunIdle
    /\ SplitsIdle
    /\ LimitIdle
    /\ StreamIdle
    /\ CacheIdle
    /\ AuthIdle
    /\ DispatchIdle
    /\ WaitIdle
    /\ RequestIdle
    /\ GenerateIdle
    /\ WorkflowIdle
    /\ i_flow \in Flows
    /\ i_artists \in InitialArtists
    /\ i_shape = "array"
    /\ i_runs = <<>>
    /\ i_created = 0

IdentityNext ==
    \/ FindOrCreateArtist
    \/ CreateArtistAlways
    \/ IdentityCallThrows

IdentitySpec == IdentityInit /\ [][IdentityNext]_vars

\* a new DittoClient (auth = null) and up to MaxCalls calls of authenticate
AuthInit ==
    /\ ChatIdle
    /\ UploadIdle
    /\ WalletIdle
    /\ SessionIdle
    /\ RunIdle
    /\ SplitsIdle
    /\ LimitIdle
    /\ StreamIdle
    /\ CacheIdle
    /\ DispatchIdle
    /\ WaitIdle
    /\ RequestIdle
    /\ GenerateIdle
    /\ WorkflowIdle
    /\ IdentityIdle
    /\ a_pc = "ready"
    /\ a_now = 0
    /\ a_auth = NoAuth
    /\ a_issued = 0
    /\ a_exchangedAt = -1
    /\ a_done = 0
    /\ a_call = NoAuthCall

AuthNext ==
    \/ AuthTick
    \/ Authenticate

AuthSpec == AuthInit /\ [][AuthNext]_vars

\* the caches the server can hold when the requests arrive: empty, one below
\* the limit, full; the timestamps ascending, equal, or with the entry
\* inserted first overwritten last
CacheFills == {0, cacheLimit - 1, cacheLimit}
InitialCaches ==
    {[k \in 1..n |-> CacheEntry(100 + k, k)] : n \in CacheFills}
    \cup {[k \in 1..n |-> CacheEntry(100 + k, cacheLimit)] : n \in CacheFills}
    \cup {[k \in 1..n |-> CacheEntry(100 + k, IF k = 1 THEN cacheLimit ELSE k)] :
            n \in CacheFills}

CacheInit ==
    /\ ChatIdle
    /\ UploadIdle
    /\ WalletIdle
    /\ SessionIdle
    /\ RunIdle
    /\ SplitsIdle
    /\ LimitIdle
    /\ StreamIdle
    /\ DispatchIdle
    /\ WaitIdle
    /\ RequestIdle
    /\ GenerateIdle
    /\ WorkflowIdle
    /\ IdentityIdle
    /\ AuthIdle
    /\ c_cache \in InitialCaches
    /\ c_clock = cacheLimit
    /\ c_req = [r \in StatusSlots |-> NoStatusRequest]
    /\ c_insert = NoInsert
    /\ c_polls = 0

CacheNext ==
    \E r \in StatusSlots :
        \/ StatusArrives(r)
        \/ DetailsSettle(r)
        \/ AudioSettle(r)
        \/ ImageSettle(r)

CacheSpec == CacheInit /\ [][CacheNext]_vars

\* one POST request with Accept: text/event-stream
StreamInit ==
    /\ ChatIdle
    /\ UploadIdle
    /\ WalletIdle
    /\ SessionIdle
    /\ RunIdle
    /\ SplitsIdle
    /\ LimitIdle
    /\ DispatchIdle
    /\ WaitIdle
    /\ RequestIdle
    /\ GenerateIdle
    /\ WorkflowIdle
    /\ IdentityIdle
    /\ AuthIdle
    /\ CacheIdle
    /\ e_pc = "start"
    /\ e_hasMessages \in BOOLEAN
    /\ e_log = <<>>
    /\ e_response = NoStreamResponse
    /\ e_round = 0
    /\ e_next = 0

StreamNext ==
    \/ StreamMessagesRequired
    \/ StreamFirstEngineCall
    \/ StreamEngineReturns
    \/ StreamEngineThrows
    \/ StreamToolStarts
    \/ StreamToolSettles
    \/ StreamToolHangs
    \/ StreamContinue

StreamSpec == StreamInit /\ [][StreamNext]_vars

\* the handler is one async function: a step that can run does run
StreamFairSpec == StreamSpec /\ WF_vars(StreamNext)

\* a server just started: empty trackers
LimitInit ==
    /\ ChatIdle
    /\ UploadIdle
    /\ WalletIdle
    /\ SessionIdle
    /\ RunIdle
    /\ SplitsIdle
    /\ DispatchIdle
    /\ WaitIdle
    /\ RequestIdle
    /\ GenerateIdle
    /\ WorkflowIdle
    /\ IdentityIdle
    /\ AuthIdle
    /\ CacheIdle
    /\ StreamIdle
    /\ l_server \in Servers
    /\ l_now = 0
    /\ l_usage = [u \in Users |-> [ty \in LimitTypes |-> NoUsage]]
    /\ l_admitted = [u \in Users |-> [ty \in LimitTypes |-> 0]]
    /\ l_last = NoApiAnswer
    /\ l_requests = 0

LimitNext ==
    \/ LimitTick
    \/ CompiledApiRequest
    \/ ServerTsApiRequest

LimitSpec == LimitInit /\ [][LimitNext]_vars

\* one call of set_splits
SplitsInit ==
    /\ ChatIdle
    /\ UploadIdle
    /\ WalletIdle
    /\ SessionIdle
    /\ RunIdle
    /\ DispatchIdle
    /\ WaitIdle
    /\ RequestIdle
    /\ GenerateIdle
    /\ WorkflowIdle
    /\ IdentityIdle
    /\ AuthIdle
    /\ CacheIdle
    /\ StreamIdle
    /\ LimitIdle
    /\ p_pc = "called"
    /\ p_live \in BOOLEAN
    /\ p_splits \in SplitLists
    /\ p_sent = NotSent
    /\ p_result = NoSplitsResult

SplitsNext ==
    \/ SetSplitsInvalid
    \/ SetSplitsLive
    \/ SetSplitsMock

SplitsSpec == SplitsInit /\ [][SplitsNext]_vars

\* the first run of release_ai_track is under way, the second may be called
\* at any time; the backend holds no artist, the artist, or another one
RunInit ==
    /\ ChatIdle
    /\ UploadIdle
    /\ WalletIdle
    /\ SessionIdle
    /\ DispatchIdle
    /\ WaitIdle
    /\ RequestIdle
    /\ GenerateIdle
    /\ WorkflowIdle
    /\ IdentityIdle
    /\ AuthIdle
    /\ CacheIdle
    /\ StreamIdle
    /\ LimitIdle
    /\ SplitsIdle
    /\ \E opts \in RunOptions :
         r_run = [r \in Runs |-> IF r = 1 THEN Run("generateMusic", opts) ELSE NoRun]
    /\ r_artists \in {<<>>, <<Artist(1, "Nova")>>, <<Artist(1, "Echo")>>}
    /\ r_stores \in StoreSets
    /\ r_storeMapping = FALSE
    /\ r_nextId = firstBackendId

RunNext ==
    \/ RunCalled
    \/ \E r \in Runs :
         \/ RunGenerates(r)
         \/ RunListsArtists(r)
         \/ RunCreatesArtist(r)
         \/ RunCreatesRelease(r)
         \/ RunCreatesTrack(r)
         \/ RunGeneratesArtwork(r)
         \/ RunResolvesStores(r)
         \/ RunSubmits(r)
         \/ RunReturns(r)

RunSpec == RunInit /\ [][RunNext]_vars

\* a client without a valid token: none cached, or an expired one with or
\* without a refresh token
SessionInit ==
    /\ ChatIdle
    /\ UploadIdle
    /\ WalletIdle
    /\ DispatchIdle
    /\ WaitIdle
    /\ RequestIdle
    /\ GenerateIdle
    /\ WorkflowIdle
    /\ IdentityIdle
    /\ AuthIdle
    /\ CacheIdle
    /\ StreamIdle
    /\ LimitIdle
    /\ SplitsIdle
    /\ RunIdle
    /\ n_pc = [c \in SessionCalls |-> "ready"]
    /\ n_held = [c \in SessionCalls |-> 0]
    /\ n_cold = {}
    /\ n_auth \in {NoAuth} \cup {AuthToken(1, r, expiryMin) : r \in BOOLEAN}
    /\ n_issued = 1

SessionNext ==
    \E c \in SessionCalls :
        \/ SessionCallStarts(c)
        \/ SessionRefreshSettles(c)
        \/ SessionPrimarySettles(c)
        \/ SessionSecondarySettles(c)
        \/ SessionRequestSent(c)

SessionSpec == SessionInit /\ [][SessionNext]_vars

\* two calls for any two names; the file is empty or holds one mapping
WalletInit ==
    /\ ChatIdle
    /\ UploadIdle
    /\ DispatchIdle
    /\ WaitIdle
    /\ RequestIdle
    /\ GenerateIdle
    /\ WorkflowIdle
    /\ IdentityIdle
    /\ AuthIdle
    /\ CacheIdle
    /\ StreamIdle
    /\ LimitIdle
    /\ SplitsIdle
    /\ RunIdle
    /\ SessionIdle
    /\ k_pc = [c \in WalletCalls |-> "called"]
    /\ k_name \in [WalletCalls -> WalletNames]
    /\ k_wallets = [c \in WalletCalls |-> NoWallets]
    /\ k_result = [c \in WalletCalls |-> 0]
    /\ k_created \in {0, 1}
    /\ k_file \in IF k_created = 0 THEN {NoWallets}
                  ELSE {[k \in WalletKeys |-> IF k = j THEN 1 ELSE 0] :
                           j \in WalletKeys}
    /\ k_privy \in BOOLEAN

WalletNext ==
    \E c \in WalletCalls :
        \/ WalletLoads(c)
        \/ WalletCreates(c)
        \/ WalletCreateFails(c)

WalletSpec == WalletInit /\ [][WalletNext]_vars

\* one POST /api/upload-track against a cache of up to two tasks
UploadInit ==
    /\ ChatIdle
    /\ DispatchIdle
    /\ WaitIdle
    /\ RequestIdle
    /\ GenerateIdle
    /\ WorkflowIdle
    /\ IdentityIdle
    /\ AuthIdle
    /\ CacheIdle
    /\ StreamIdle
    /\ LimitIdle
    /\ SplitsIdle
    /\ RunIdle
    /\ SessionIdle
    /\ WalletIdle
    /\ u_pc = "posted"
    /\ u_body \in UploadBodies
    /\ u_cache \in UploadCaches
    /\ u_buffer = NoAudio
    /\ u_uploaded = NoAudio
    /\ u_answer = 0

UploadNext ==
    \/ UploadRefused
    \/ UploadLooksUp
    \/ UploadDownloadSettles
    \/ UploadSends

UploadSpec == UploadInit /\ [][UploadNext]_vars

\* waitForCompletion is one async function: its timers fire and its fetches
\* answer or are aborted, so an enabled step is eventually taken
WaitFairSpec == WaitSpec /\ WF_vars(WaitNext)

\* the handler is one cooperative task: a pending await (engine call, fetch)
\* eventually resumes, so an enabled step is eventually taken
FairSpec == Spec /\ WF_vars(Next)

-----------------------------------------------------------------------------
(* Properties of the chat handler *)

RECURSIVE fullConversation(_, _)
\* the conversation after k tool rounds: the caller's messages followed by
\* the assistant turn and the tool-result turn of every round 1..k
fullConversation(base, k) ==
    IF k = 0 THEN base
    ELSE fullConversation(base, k - 1)
           \o <<[role |-> "assistant", round |-> k, idx |-> 0],
                [role |-> "user", round |-> k, idx |-> 0]>>

\* C1: every engine call of a request receives the full conversation so
\* far: the caller's messages followed by the assistant turn and the
\* tool-result turn of every earlier round, in order; after k rounds the
\* history sent has grown by 2k turns.
C1_EngineReceivesFullConversation ==
    (chat_pc = "engine" /\ rounds < MaxRounds) =>
        /\ sent = fullConversation(anthropicMessages, rounds)
        /\ Len(sent) = Len(anthropicMessages) + 2 * rounds

ChatTerminated == chat_pc \in {"done", "error", "ended"}

\* C2: the tool loop stops after a fixed maximum number of round-trips, so
\* every request terminates whatever the reasoning engine answers.
C2_ToolLoopTerminates == <>ChatTerminated

\* C3: the tool-result turn of an engine turn that requests n invocations
\* holds exactly n results, the i-th carrying the id of the i-th request;
\* each request is executed exactly once, in request order.
C3_ResultsInRequestOrder ==
    LET tus == toolUseBlocks(response) IN
    /\ Len(toolResults) <= Len(tus)
    /\ Len(threwLog) = Len(toolResults)
    /\ \A i \in 1..Len(toolResults) : toolResults[i].tool_use_id = tus[i].id
    /\ (chat_pc = "engine" /\ loopContinues(response)) => Len(toolResults) = Len(tus)

C3_Witness ==
    /\ chat_pc = "engine"
    /\ Len(toolResults) = 2
    /\ toolResults[1].tool_use_id = 2
    /\ toolResults[2].tool_use_id = 1
    /\ threwLog = <<TRUE, FALSE>>

\* C4: an invocation whose name is not in the registry, or whose arguments
\* fail the tool's schema, never reaches the backend and yields an error
\* result, in every dispatcher.
C4_InvalidNeverReachesBackend ==
    (d_pc = "done" /\ ~ValidInvocation(d_call)) =>
        (~d_result.fetched /\ d_result.isError)

\* C5: a tool call that throws does not abort the request: its tool-result
\* carries is_error, the remaining invocations of the turn are still
\* executed, and the engine is then called again with the results.
C5_ToolFailureIsReported ==
    [][chat_pc = "tools" =>
        /\ chat_pc' \in {"tools", "engine"}
        /\ outcome' = outcome
        /\ \A i \in 1..Len(toolResults') : toolResults'[i].is_error = threwLog'[i]
        /\ chat_pc' = "engine" =>
             /\ Len(toolResults) = Len(toolUseBlocks(response))
             /\ toolResults' = toolResults
             /\ sent'[Len(sent')].role = "user"
             /\ sent'[Len(sent')].round = rounds'
             /\ engineCalls' = Min(engineCalls + 1, MaxRounds + 1)]_vars

C5_Witness ==
    /\ chat_pc = "engine"
    /\ threwLog = <<TRUE, FALSE>>
    /\ toolResults[1].is_error
    /\ ~toolResults[2].is_error

\* C6 as stated: a final answer is returned only when the latest response
\* requests no tool, and its text is the text content of that response.
C6_FinalTextIsResponseText ==
    chat_pc = "done" =>
        /\ toolUseBlocks(response) = <<>>
        /\ outcome.response = responseText(response)

\* the marker the non-streaming handler appends when a generation started
taskIdMarker(wantsStream, taskId) ==
    IF ~wantsStream /\ taskId # NULL THEN <<"[taskId:", taskId>> ELSE <<>>

\* C6 amended: a final answer is returned only when the latest response
\* requests no tool; its text is the text content of that response, to
\* which the non-streaming handler appends the marker of the task id of the
\* latest generate_music call that returned one; while the response
\* requests tools no answer is given.
C6_FinalAnswer ==
    /\ chat_pc = "done" =>
        /\ toolUseBlocks(response) = <<>>
        /\ ~loopContinues(response)
        /\ outcome.kind = IF req.wantsStream THEN "sse_done" ELSE "http"
        /\ outcome.response =
             responseText(response) \o taskIdMarker(req.wantsStream, lastStarted)
    /\ (outcome.kind = "sse_done" \/ (outcome.kind = "http" /\ outcome.status = 200
                                        /\ req.method = "POST"))
          => chat_pc = "done"
    /\ (toolUseBlocks(response) # <<>> /\ ~engineFailed) =>
        /\ chat_pc \in {"tools", "engine"}
        /\ outcome = NoOutcome

C6_Witness ==
    /\ chat_pc = "done"
    /\ rounds = 2
    /\ ~req.wantsStream
    /\ lastStarted = "task_B"
    /\ outcome.response = <<"t2", "[taskId:", "task_B">>

WellFormed == req.method = "POST" /\ req.hasMessagesArray

IsErrorOutcome(o) == o.kind = "sse_error" \/ (o.kind = "http" /\ o.status = 500)

-----------------------------------------------------------------------------
(* Properties of SunoClient.waitForCompletion *)

\* C8: a poll that reports a status of the failure set makes
\* waitForCompletion raise the generation-failed error on that poll: no
\* further poll, no wait until maxWait.
C8_FailureStatusRaisesAtOnce == failureSeen => w_pc = "generationFailed"

\* C9: up to 10 consecutive network-level poll errors are swallowed; it is
\* the 11th consecutive one that escalates to 'too many consecutive polling
\* errors'.
C9_EleventhErrorEscalates ==
    (w_pc = "tooManyErrors" /\ onlyNetErrors) =>
        consecutiveErrors = maxConsecutiveErrors + 1

\* C10: when the polls return PENDING, PENDING and SUCCESS with an audio
\* URL, waitForCompletion returns that result after exactly 3 polls, having
\* waited one poll interval between consecutive polls.
C10_ReturnsOnThirdPoll ==
    scenario = 3 =>
        /\ w_pc \in {"cooldown", "returned"}
        /\ pollCount = 3
        /\ details.status = "SUCCESS"
        /\ details.tracks = "audio_url"
        /\ slept = 2 * pollIntervalS
        /\ now - startTime >= 2 * pollIntervalS

C10_Witness ==
    /\ scenario = 3
    /\ w_pc = "returned"
    /\ pollCount = 3
    /\ now - startTime = 2 * pollIntervalS + cooldownS

\* C11: every result waitForCompletion returns has status SUCCESS and a
\* track with an audioUrl or a streamAudioUrl; a poll that reports SUCCESS
\* without such a track does not end the wait.
C11_ReturnsOnlyUsableResults ==
    /\ w_pc \in {"cooldown", "returned"} =>
         (details.status = "SUCCESS" /\ details.tracks \in {"audio_url", "stream_url"})
    /\ (details.status = "SUCCESS" /\ details.tracks \in {"none", "no_url"}) =>
         w_pc = "sleeping"

WaitTerminal == w_pc \in {"returned", "generationFailed", "tooManyErrors", "timedOut"}

\* C12: the classification of a polled status is total and exact: an
\* in-progress status keeps the job polling, a status of the failure set
\* ends the wait as failed, only SUCCESS ends it as succeeded; once the wait
\* has ended no further poll or transition happens.
C12_StatusClassification ==
    /\ [](details.kind = "details" =>
            /\ details.status \in InProgressStatuses => w_pc = "sleeping"
            /\ details.status \in FailureStatuses => w_pc = "generationFailed"
            /\ w_pc \in {"cooldown", "returned"} => details.status = "SUCCESS")
    /\ [][WaitTerminal => UNCHANGED waitVars]_vars

\* C13: waitForCompletion always ends, by returning or throwing; it starts
\* no poll once maxWait has elapsed since the call began; when the loop
\* finds the deadline passed it throws the timed-out error, which is not the
\* generation-failed error.
C13_WaitTerminates ==
    /\ <>WaitTerminal
    /\ [][pollCount' # pollCount => now - startTime < maxWaitS]_vars
    /\ [](w_pc = "timedOut" => now - startTime >= maxWaitS)
    /\ ((w_pc = "loop" /\ now - startTime >= maxWaitS) ~> (w_pc = "timedOut"))

C13_Witness ==
    /\ w_pc = "timedOut"
    /\ pollCount > 1
    /\ now - startTime >= maxWaitS
    /\ ~failureSeen

-----------------------------------------------------------------------------
(* Properties of the adapters' requests *)

C15_RejectedRequestSentOnce ==
    /\ q_last = "http_4xx" => (q_sent = 1 /\ q_pc = "threw")
    /\ q_authSent > 1 => q_client = "ditto"

\* C16: every external call runs under a timeout: a backend that never
\* answers cannot block a request forever, and the exceeded timeout is
\* handled like a network failure that is retried.
C16_NoCallBlocksForever ==
    /\ q_pc # "blocked"
    /\ q_last = "timeout" => (q_pc = "backoff" \/ (q_pc = "threw" /\ q_sent = retries))

-----------------------------------------------------------------------------
(* Properties of starting a generation *)

\* C17: a generation started with wait = false makes one submission to the
\* generation backend and answers with the job id as soon as the backend
\* acknowledges: no status poll is made and the call never waits for the
\* job to complete.
C17_StartDoesNotWait ==
    g_body.wait = "false" =>
        /\ g_polls = 0
        /\ g_pc # "waiting"
        /\ g_submissions <= 1
        /\ (g_pc = "returned" /\ ~g_result.threw) =>
             (g_submissions = 1 /\ g_result.taskId = g_answer.taskId
              /\ g_result.taskId # NULL /\ ~g_answer.tracks)

-----------------------------------------------------------------------------
(* Properties of the one-shot release workflow *)

FatalSteps == {"generate", "identity", "release", "track"}

\* the artwork step is the only step that failed, and the run has answered
OnlyArtworkFailed == f_result.answered /\ f_failed = {"artwork"}

C19_FatalStepAborts ==
    (f_failed \cap FatalSteps # {}) =>
        /\ f_pc = "answered"
        /\ f_result.answered /\ ~f_result.success
        /\ f_result.notes = f_failed
        /\ Cardinality(f_failed) = 1
        /\ f_calls[Len(f_calls)] \in f_failed
        /\ \A k \in 1..Len(f_calls) : f_calls[k] \notin {"artwork", "submit"}

C19_Witness ==
    /\ f_result.answered
    /\ ~f_result.success
    /\ f_failed = {"track"}
    /\ f_calls = <<"generate", "identity", "release", "track">>

\* C20: when the submission call fails after all earlier steps succeeded
\* the workflow still reports success = true, with the submission noted as
\* failed in its result.
C20_SubmissionFailureNonFatal ==
    (f_result.answered /\ f_failed = {"submit"}) =>
        (f_result.success /\ "submit" \in f_result.notes)

-----------------------------------------------------------------------------
\* C21: identity resolution is idempotent: a run that finds an artist whose
\* name equals the requested name ignoring case uses that artist's id and
\* issues no creation call, and the runs of the workflow with one name (in
\* any letter case) create at most one artist between them.
createdFor(lname) ==
    Cardinality({k \in 1..Len(i_runs) :
        i_runs[k].created /\ toLowerCase(i_runs[k].name) = lname})

C21_IdentityResolutionIdempotent ==
    /\ \A k \in 1..Len(i_runs) : i_runs[k].found => ~i_runs[k].created
    /\ \A n \in ArtistNames : createdFor(toLowerCase(n)) <= 1

-----------------------------------------------------------------------------
\* C22: a call of authenticate makes no network exchange and returns the
\* cached token if and only if a token is cached whose expiry lies more than
\* 5 minutes after the time of the call; a call that finds less (4 minutes
\* remaining) opens an exchange, the refresh when a refresh token is held,
\* and one that finds 10 minutes remaining opens none.  A call made less than
\* 55 minutes after the latest successful exchange returns the token of that
\* exchange and fetches nothing.
AuthCalled == a_done > 0

C22_CachedTokenReused ==
    AuthCalled =>
      /\ (a_call.trail = <<>>) <=>
            (a_call.cachedBefore /\ a_call.remaining > bufferMin)
      /\ a_call.trail = <<>> =>
            (a_call.result = "token" /\ a_call.token = a_call.tokenBefore)
      /\ (a_call.cachedBefore /\ a_call.remaining = 4 /\ a_call.heldRefresh) =>
            (a_call.trail # <<>>
             /\ a_call.trail[1].endpoint = "/api/token/refresh")
      /\ (a_call.cachedBefore /\ a_call.remaining = 10) => a_call.trail = <<>>
      /\ (a_call.sinceExchange >= 0
          /\ a_call.sinceExchange < expiryMin - bufferMin) =>
            (a_call.trail = <<>> /\ a_call.token = a_call.tokenBefore)
      /\ (a_auth.cached /\ a_exchangedAt >= 0) =>
            a_auth.expiresAt = a_exchangedAt + expiryMin

\* a call 54 minutes after the exchange reuses the token, and a call that
\* finds 4 minutes remaining refreshes
C22_Witness ==
    /\ AuthCalled
    /\ a_call.sinceExchange = expiryMin - bufferMin - 1
    /\ a_call.trail = <<>>
    /\ a_call.token = a_issued
    /\ a_issued > 0

C22_WitnessRefresh ==
    /\ AuthCalled
    /\ a_call.cachedBefore
    /\ a_call.remaining = 4
    /\ a_call.trail # <<>>

-----------------------------------------------------------------------------
\* C23: a call of authenticate that finds the cached token near expiry and a
\* refresh token held fetches the refresh endpoint first; when that exchange
\* fails (a non-OK answer, a network error) the call throws nothing for it
\* and goes on to the full login; a call that finds no refresh token starts
\* with the full login.
NearExpiry == AuthCalled /\ ~(a_call.cachedBefore /\ a_call.remaining > bufferMin)
RefreshFailed ==
    /\ NearExpiry
    /\ a_call.heldRefresh
    /\ a_call.trail[1].outcome \in {"http_4xx", "http_5xx", "network_error"}

C23_FailedRefreshFallsBack ==
    /\ (NearExpiry /\ a_call.heldRefresh) =>
          a_call.trail[1].endpoint = "/api/token/refresh"
    /\ RefreshFailed =>
          (Len(a_call.trail) >= 2
           /\ a_call.trail[2].endpoint = "/authentication_token"
           /\ (a_call.result = "threw" =>
                 a_call.trail[Len(a_call.trail)].outcome # "ok"))
    /\ (NearExpiry /\ ~a_call.heldRefresh) =>
          a_call.trail[1].endpoint = "/authentication_token"
    /\ AuthCalled =>
          \A k \in 2..Len(a_call.trail) :
              a_call.trail[k].endpoint # "/api/token/refresh"

\* the refresh met a network error and the login that followed succeeded
C23_Witness ==
    /\ RefreshFailed
    /\ a_call.trail[1].outcome = "network_error"
    /\ a_call.result = "token"
    /\ a_call.token = a_issued

-----------------------------------------------------------------------------
\* the fetches of the full login of the latest call
loginTrail ==
    IF a_call.trail # <<>> /\ a_call.trail[1].endpoint = "/api/token/refresh"
    THEN Tail(a_call.trail) ELSE a_call.trail
Rejected(f) == f.outcome \in {"http_4xx", "http_5xx"}
FullLogin == AuthCalled /\ loginTrail # <<>>

LoginOrder ==
    FullLogin =>
      /\ loginTrail[1].endpoint = "/authentication_token"
      /\ Len(loginTrail) <= 2
      /\ (Len(loginTrail) = 2) <=> Rejected(loginTrail[1])
      /\ Len(loginTrail) = 2 => loginTrail[2].endpoint = "/api/login"
      /\ a_call.result = "token" =>
            (/\ loginTrail[Len(loginTrail)].outcome = "ok"
             /\ a_auth.cached
             /\ a_auth.token = a_call.token)

\* C24 (as stated): in a full login the primary endpoint is fetched first, the
\* secondary if and only if the primary answered with a rejection, the token
\* of the endpoint that succeeded is cached, and authenticate throws only
\* after both endpoints were fetched and both rejected.
C24_ThrowsOnlyAfterBothRejected ==
    /\ LoginOrder
    /\ (FullLogin /\ a_call.result = "threw") =>
          (Len(loginTrail) = 2 /\ Rejected(loginTrail[1])
           /\ Rejected(loginTrail[2]))

\* C24 (amended): the order, the fallback and the caching as stated; and
\* authenticate throws exactly when the endpoint fetched last did not yield a
\* token: the secondary after a rejection of the primary, or the primary
\* itself when it failed otherwise than by a rejection (network error, body
\* that is not JSON), in which case the secondary is not fetched.
C24_LoginFallback ==
    /\ LoginOrder
    /\ (FullLogin /\ a_call.result = "threw") =>
          (/\ loginTrail[Len(loginTrail)].outcome \notin {"ok", "no_answer"}
           /\ Len(loginTrail) = 1 =>
                 loginTrail[1].outcome \in {"network_error", "bad_body"})
    /\ (FullLogin /\ loginTrail[Len(loginTrail)].outcome = "ok") =>
          a_call.result = "token"

\* the primary rejected, the secondary gave the token that is now cached
C24_Witness ==
    /\ FullLogin
    /\ Len(loginTrail) = 2
    /\ Rejected(loginTrail[1])
    /\ a_call.result = "token"
    /\ a_auth.token = a_call.token

-----------------------------------------------------------------------------
\* C25: once an insert has finished the cache of completed jobs holds at most
\* 10 entries: when the insert made the size exceed 10, exactly one entry was
\* removed, one with the oldest timestamp, and the entry just inserted is
\* still held.
Inserted == c_insert.key # 0

C25_CacheBounded ==
    /\ Len(c_cache) <= cacheLimit
    /\ Inserted =>
         LET a == c_insert.afterSet
             b == c_insert.afterClean
         IN /\ cacheHas(b, c_insert.key)
            /\ Len(a) <= cacheLimit => b = a
            /\ Len(a) > cacheLimit =>
                 \E k \in 1..Len(a) :
                    /\ b = removeAt(a, k)
                    /\ \A j \in 1..Len(a) : a[k].timestamp <= a[j].timestamp

\* an insert into a full cache whose entries all carry the timestamp of the
\* new entry
C25_Witness ==
    /\ Inserted
    /\ Len(c_insert.afterSet) = cacheLimit + 1
    /\ \A j \in 1..Len(c_insert.afterSet) :
          c_insert.afterSet[j].timestamp = cacheLimit

-----------------------------------------------------------------------------
\* C26: polling is serialized per job: at no time are two status polls of
\* one job id in flight, and so no two polls write the job's cache entry.
C26_PollsSerializedPerJob ==
    \A r1, r2 \in StatusSlots :
        (r1 # r2 /\ c_req[r1].taskId = c_req[r2].taskId) =>
            ~(c_req[r1].pc \in {"details", "audio", "image"}
              /\ c_req[r2].pc \in {"details", "audio", "image"})

-----------------------------------------------------------------------------
\* C27: a status check that observes SUCCESS with a track and downloads
\* non-empty audio has the audio in the cache under the job id when it
\* answers; a check answered from the cache answers SUCCESS and calls no
\* generation backend.
C27_AudioCachedBeforeAnswer ==
    \A r \in StatusSlots :
        c_req[r].pc = "answered" =>
            /\ (c_req[r].audio = "bytes") => c_req[r].stored
            /\ c_req[r].fromCache =>
                  (c_req[r].answer = "SUCCESS" /\ ~c_req[r].polled)

-----------------------------------------------------------------------------
\* C28: in streaming mode every request ends with exactly one terminal event,
\* 'done' with the final text or 'error', which is the last event written;
\* the status event of each tool is written before the tool is called and
\* every status event precedes the terminal event.
IsTerminal(e) == e.kind \in {"done", "error"}
IsEvent(e) == e.kind \in {"status", "text", "done", "error"}
Terminals == {i \in 1..Len(e_log) : IsTerminal(e_log[i])}

EventOrder ==
    /\ Cardinality(Terminals) <= 1
    /\ \A i \in Terminals :
          /\ i = Len(e_log) - 1
          /\ e_log[Len(e_log)].kind = "end"
          /\ e_log[i].kind = "done" =>
                (e_response.stop_reason = "end_turn"
                 /\ e_log[i].text = e_response.text)
    /\ e_pc = "ended" => Cardinality(Terminals) = 1
    /\ \A i \in 1..Len(e_log) :
          e_log[i].kind = "call" =>
              \E j \in 1..(i - 1) :
                  e_log[j].kind = "status" /\ e_log[j].tool = e_log[i].tool

StreamOver == e_pc \in {"ended", "blocked"}

-----------------------------------------------------------------------------
\* C29: per user and calendar day the API admits at most 3 generation
\* requests and at most 5 release requests; the request after that on the
\* same day is answered 429 and reaches no backend; the first request of a
\* new day is admitted again.
dailyLimit(type) == IF type = "generations" THEN dailyGenerations ELSE dailyReleases

C29_DailyLimits ==
    /\ \A u \in Users, ty \in LimitTypes : l_admitted[u][ty] <= dailyLimit(ty)
    /\ l_last.user # NULL =>
         /\ l_last.before >= dailyLimit(l_last.type) =>
               (l_last.status = 429 /\ ~l_last.backend)
         /\ l_last.before = 0 => l_last.status # 429
         /\ l_last.status = 429 => ~l_last.backend

-----------------------------------------------------------------------------
\* C30: a split list whose percentages do not total 100 is never sent to the
\* backend by set_splits and never reported as active.
C30_SplitsTotalHundred ==
    (p_pc = "answered" /\ totalPercentage(p_splits) # hundredPercent) =>
        (~p_sent.put /\ p_result.status # "active")

-----------------------------------------------------------------------------
\* C31: in every run of release_ai_track the backend calls are made in the
\* fixed order generate, wait, list artists, (create artist), create release,
\* attach track, (artwork), (submission); a call is made only after every
\* mandatory call before it returned; the ids passed are the ids the earlier
\* calls of the same run returned.
MandatoryCalls ==
    {"generateMusic", "waitForCompletion", "getArtists", "createRelease",
     "createTrackWithAudio"}
OptionalCalls == {"generateArtwork", "getStores"}

\* the id the call `name` of log L returned, 0 if it was not made
returnedBy(L, name) ==
    IF \E k \in 1..Len(L) : L[k].call = name
    THEN L[CHOOSE k \in 1..Len(L) : L[k].call = name].returned
    ELSE 0

CallsInOrder(L) ==
    /\ \A i, j \in 1..Len(L) :
          i < j => /\ callRank(L[i].call) < callRank(L[j].call)
                   /\ (L[i].ok \/ L[i].call \in OptionalCalls)
    /\ \A j \in 1..Len(L) :
          \A c \in MandatoryCalls :
              callRank(c) < callRank(L[j].call) =>
                  \E i \in 1..(j - 1) : L[i].call = c /\ L[i].ok
    /\ \A j \in 1..Len(L) :
          L[j].call = "createArtist" => returnedBy(L, "getArtists") = 0

IdsPassedOn(L) ==
    \A j \in 1..Len(L) :
        /\ L[j].call = "waitForCompletion" =>
              L[j].passed = returnedBy(L, "generateMusic")
        /\ L[j].call = "createRelease" =>
              /\ L[j].passed # 0
              /\ L[j].passed = IF returnedBy(L, "getArtists") # 0
                               THEN returnedBy(L, "getArtists")
                               ELSE returnedBy(L, "createArtist")
        /\ L[j].call \in {"createTrackWithAudio", "generateArtwork",
                          "submitToStores"} =>
              /\ L[j].passed # 0
              /\ L[j].passed = returnedBy(L, "createRelease")

C31_CallsInFixedOrder ==
    \A r \in Runs : CallsInOrder(r_run[r].calls) /\ IdsPassedOn(r_run[r].calls)

\* a run that went through every step, artwork and submission included,
\* while the other run had created its own release
C31_Witness ==
    /\ r_run[1].result.success
    /\ Len(r_run[1].calls) = 9
    /\ r_run[2].releaseId # 0
    /\ r_run[2].releaseId < r_run[1].releaseId

-----------------------------------------------------------------------------
\* C32: the result of release_ai_track lists platforms as submitted only if
\* the submission call was made and succeeded; a run whose submission was
\* skipped reports no platform as submitted.
C32_SubmittedTruthfully ==
    \A r \in Runs :
        (r_run[r].result.answered /\ r_run[r].result.dspsSubmitted # <<>>) =>
            /\ r_run[r].submitted
            /\ \E k \in 1..Len(r_run[r].calls) :
                  r_run[r].calls[k].call = "submitToStores" /\ r_run[r].calls[k].ok

-----------------------------------------------------------------------------
\* C33: two overlapping runs of release_ai_track for one artist name create
\* at most one artist of that name, however their list and create calls
\* interleave.
C33_OneArtistPerName ==
    Cardinality({k \in 1..Len(r_artists) : sameName(r_artists[k], "Nova")}) <= 1

-----------------------------------------------------------------------------
\* C34: the in-memory checkRateLimit, per user and limit type: a call that
\* finds no window or arrives after resetAt opens a window with count 1;
\* every other call counts one more in the window; the call is allowed
\* exactly while the count is within the limit; remaining is
\* max(0, limit - count) and never negative; the counters of other users
\* and types are not touched.
windowCallIsRight(u, ty) ==
    LET old == l_usage[u][ty]
        new == l_usage'[u][ty]
    IN /\ IF old = NoUsage \/ old.resetAt < l_now
          THEN new.count = 1 /\ new.resetAt = l_now + windowHalfDays
          ELSE new.count = old.count + 1 /\ new.resetAt = old.resetAt
       /\ (l_last'.status = 200) <=> (new.count <= RATE_LIMITS(ty))
       /\ (l_last'.status = 429) <=> (new.count > RATE_LIMITS(ty))
       /\ l_last'.remaining >= 0
       /\ l_last'.remaining = Max(0, RATE_LIMITS(ty) - new.count)
       /\ \A u2 \in Users, ty2 \in LimitTypes :
             <<u2, ty2>> # <<u, ty>> => l_usage'[u2][ty2] = l_usage[u2][ty2]

C34_WindowCounts ==
    [][(l_server = "server_ts" /\ l_requests' = l_requests + 1) =>
          windowCallIsRight(l_last'.user, l_last'.type)]_vars

\* the call after the limit is refused, and a window has been reopened
C34_Witness ==
    /\ l_server = "server_ts"
    /\ l_last.status = 429
    /\ l_last.remaining = 0
    /\ l_usage[l_last.user][l_last.type].count = RATE_LIMITS(l_last.type) + 1

-----------------------------------------------------------------------------
\* C35: on the rate-limited routes of the compiled server a request that is
\* answered 400 (required fields missing) or 429 leaves the daily usage
\* count of its caller as it was.
usedToday(usage, t) ==
    IF usage # NoUsage /\ usage.date = today(t) THEN usage.count ELSE 0

C35_RejectedKeepsQuota ==
    [][(l_server = "compiled" /\ l_requests' = l_requests + 1
          /\ l_last'.status \in {400, 429}) =>
       usedToday(l_usage'[l_last'.user][l_last'.type], l_now)
          = usedToday(l_usage[l_last'.user][l_last'.type], l_now)]_vars

-----------------------------------------------------------------------------
\* C36: a call of authenticate that fails leaves the cached record (token,
\* refresh token, expiry) exactly as it was; the record changes only when a
\* refresh or a login succeeded in the call, and then it holds the token of
\* that one exchange, newly issued, with an expiry one hour after the call.
exchangeEndpoints == {"/api/token/refresh", "/authentication_token", "/api/login"}

C36_FailureKeepsRecord ==
    [][a_done' = a_done + 1 =>
         /\ a_call'.result # "token" => a_auth' = a_auth
         /\ a_auth' # a_auth =>
              /\ a_call'.result = "token"
              /\ a_call'.trail # <<>>
              /\ a_call'.trail[Len(a_call'.trail)].outcome = "ok"
              /\ a_call'.trail[Len(a_call'.trail)].endpoint \in exchangeEndpoints
              /\ a_auth'.cached
              /\ a_auth'.token = a_call'.token
              /\ a_auth'.token = a_issued + 1
              /\ a_auth'.expiresAt = a_now + expiryMin]_vars

\* a call with a cached, expired record whose refresh and both logins failed
C36_Witness ==
    /\ a_call.result = "threw"
    /\ a_call.cachedBefore
    /\ a_call.heldRefresh
    /\ Len(a_call.trail) = 3
    /\ a_auth.cached
    /\ a_auth.token = a_call.tokenBefore

-----------------------------------------------------------------------------
\* C37: when several calls on one client start while no valid token is
\* cached, at most one credential login is in flight at any time, and all of
\* those calls go on with the token of that one exchange.
loginsInFlight == {c \in SessionCalls : n_pc[c] \in {"primary", "secondary"}}

C37_OneLoginInFlight ==
    /\ Cardinality(loginsInFlight) <= 1
    /\ \A c1, c2 \in n_cold :
          (n_pc[c1] \in {"holds", "sent"} /\ n_pc[c2] \in {"holds", "sent"})
             => n_held[c1] = n_held[c2]

-----------------------------------------------------------------------------
\* C38: after two calls of getOrCreateArtistWallet for different artists
\* have both created a wallet, the wallet file holds the mapping of both
\* artists, whatever the interleaving of their steps.
C38_NoWalletLost ==
    \A c1, c2 \in WalletCalls :
        (/\ walletKey(k_name[c1]) # walletKey(k_name[c2])
         /\ k_pc[c1] = "created"
         /\ k_pc[c2] = "created")
        => (/\ k_file[walletKey(k_name[c1])] = k_result[c1]
            /\ k_file[walletKey(k_name[c2])] = k_result[c2])

-----------------------------------------------------------------------------
\* C39: what POST /api/upload-track uploads is the cache entry stored under
\* the taskId of the request or bytes downloaded from the audioUrl of the
\* request, never audio cached for another generation task.
C39_OnlyOwnAudio ==
    /\ u_uploaded.from = "cache" => u_uploaded.task = u_body.taskId
    /\ u_uploaded.from = "download" =>
          (u_body.audioUrl.given /\ u_uploaded.task = u_body.audioUrl.task)

=============================================================================
